---- MODULE Spec2Model ----
(***************************************************************************)
(* A model of cycompile's runtime compilation cache and dispatch engine    *)
(* (src/src/cycompile/cythonize_decorator.py).                             *)
(*                                                                         *)
(* Text is modelled as a sequence of tokens; a line break is the token NL. *)
(* md5 is modelled as an ideal (collision-free) digest of its input.       *)
(***************************************************************************)
EXTENDS Integers, Sequences, FiniteSets, TLC

(* ---------------------------------------------------------------- bounds *)

\* Largest argument passed to a decorated function.
MaxArg == 5

\* Largest argument passed by a call made while two threads run.
MaxThreadArg == 1

\* Number of backend (compiler) failures the environment may inject.
MaxFail == 1

\* Capacity of the in-process tier.  The source sets 500
\* (cythonize_decorator.py:43); the model scales it down.
MAX_CACHE_SIZE == 2

(* ------------------------------------------------------------ text layer *)

NL == "\n"

\* Whitespace tokens (str.strip removes them at both ends of a line).
WS == {" ", "    ", "        "}

RECURSIVE LStrip(_)
LStrip(l) == IF l # <<>> /\ Head(l) \in WS THEN LStrip(Tail(l)) ELSE l

RECURSIVE RStrip(_)
RStrip(l) ==
    IF l # <<>> /\ l[Len(l)] \in WS THEN RStrip(SubSeq(l, 1, Len(l) - 1)) ELSE l

\* str.strip()
strip(l) == RStrip(LStrip(l))

\* str.rstrip()
rstrip(l) == RStrip(l)

\* str.startswith(p), p a token sequence.
StartsWith(l, p) == Len(l) >= Len(p) /\ SubSeq(l, 1, Len(p)) = p

\* str.endswith(p), p a single token.
EndsWith(l, tok) == l # <<>> /\ l[Len(l)] = tok

\* sep.join(lines)
RECURSIVE Join(_, _)
Join(sep, lines) ==
    IF lines = <<>> THEN <<>>
    ELSE IF Len(lines) = 1 THEN lines[1]
    ELSE lines[1] \o sep \o Join(sep, Tail(lines))

\* str.splitlines(): the lines of a text, a trailing line break adds no line.
splitlines(text) ==
    LET breaks == {i \in 1..Len(text) : text[i] = NL}
        ends == breaks \cup (IF text # <<>> /\ text[Len(text)] # NL THEN {Len(text) + 1} ELSE {})
        nth(k) == CHOOSE i \in ends : Cardinality({j \in ends : j <= i}) = k
        start(k) == IF k = 1 THEN 1 ELSE nth(k - 1) + 1
    IN [k \in 1..Cardinality(ends) |-> SubSeq(text, start(k), nth(k) - 1)]

\* The text of a file or of a function's source: every line ends with NL.
RECURSIVE TextOf(_)
TextOf(lines) ==
    IF lines = <<>> THEN <<>> ELSE lines[1] \o <<NL>> \o TextOf(Tail(lines))

\* Elements of a sequence, and a sequence filtered by a set.
Range(s) == {s[i] : i \in 1..Len(s)}

(* ------------------------------------------------- the programs under test *)

\* An optional value (Python None or a value): <<>> is None, <<v>> is v.
None == <<>>
Some(v) == <<v>>

\* One level of indentation.
IND == "    "

\* Decorator lines as written in the sources.
DecoPlain == << <<"@", "cycompile", "(", ")">> >>
DecoFast  == << <<"@", "cycompile", "(", "opt", "=", "'fast'", ",",
                  "verbose", "=", "True", ")">> >>

\* Function bodies (lines relative to the def line's indentation).
BodyLeaf(fn) == << <<IND, "return", "lib", ".", fn, "(", "n", ")">> >>
BodyRec(base, callee) ==
    << <<IND, "if", "n", "==", "0", ":">>,
       <<IND, IND, "return", base>>,
       <<IND, "else", ":">>,
       <<IND, IND, "return", callee, "(", "n", "-", "1", ")">> >>
BodyPrint == << <<IND, "print", "(", "'text'", ")">> >>

\* The functions of the programs: name, nesting depth of the def (0 at module
\* level), the enclosing scope, the decorator lines and the body lines.
FuncIds == {"square", "is_even", "is_odd", "f_sh", "g_sh", "twin_a", "twin_b",
            "p_sh", "q_sh", "class_method", "instance_method", "inner", "h",
            "tagged", "nosrc"}

Func(f) ==
    CASE f = "square"  -> [name |-> "square", scope |-> "module", param |-> "n",
                           deco |-> DecoPlain, body |-> BodyLeaf("f")]
      [] f = "is_even" -> [name |-> "is_even", scope |-> "module", param |-> "n",
                           deco |-> DecoFast, body |-> BodyRec("True", "is_odd")]
      [] f = "is_odd"  -> [name |-> "is_odd", scope |-> "module", param |-> "n",
                           deco |-> DecoFast, body |-> BodyRec("False", "is_even")]
      [] f = "f_sh"    -> [name |-> "f_sh", scope |-> "module", param |-> "n",
                           deco |-> <<>>, body |-> BodyLeaf("f")]
      [] f = "g_sh"    -> [name |-> "g_sh", scope |-> "module", param |-> "n",
                           deco |-> <<>>, body |-> BodyLeaf("g")]
      [] f = "p_sh"    -> [name |-> "p_sh", scope |-> "module", param |-> "n",
                           deco |-> <<>>, body |-> BodyLeaf("f")]
      [] f = "q_sh"    -> [name |-> "q_sh", scope |-> "module", param |-> "n",
                           deco |-> <<>>, body |-> BodyLeaf("f")]
      [] f = "twin_a"  -> [name |-> "twin_a", scope |-> "module", param |-> "n",
                           deco |-> DecoPlain, body |-> BodyLeaf("f")]
      [] f = "twin_b"  -> [name |-> "twin_b", scope |-> "module", param |-> "n",
                           deco |-> DecoPlain, body |-> BodyLeaf("f")]
      [] f = "class_method" ->
                          [name |-> "class_method", scope |-> "class", param |-> "cls",
                           deco |-> << <<"@", "classmethod">> >> \o DecoPlain,
                           body |-> BodyPrint]
      [] f = "instance_method" ->
                          [name |-> "instance_method", scope |-> "class", param |-> "self",
                           deco |-> DecoPlain, body |-> BodyPrint]
      [] f = "inner"   -> [name |-> "inner", scope |-> "nested", param |-> "n",
                           deco |-> DecoPlain, body |-> BodyLeaf("f")]
      [] f = "h"       -> [name |-> "h", scope |-> "module", param |-> "n",
                           deco |-> <<>>, body |-> BodyLeaf("f")]
      [] f = "tagged"  -> \* @cycompile() above a decorator written without call
                          [name |-> "tagged", scope |-> "module", param |-> "n",
                           deco |-> DecoPlain \o << <<"@", "lib", ".", "register">> >>,
                           body |-> BodyLeaf("f")]
      [] f = "nosrc"   -> \* defined by exec(): it has no source file
                          [name |-> "nosrc", scope |-> "module", param |-> "n",
                           deco |-> <<>>, body |-> BodyLeaf("f")]

\* The functions inspect.getsource finds no source for (it raises OSError).
NoSource == {"nosrc"}

\* A function declared in a class body or in another function is indented.
Indent(f) == IF Func(f).scope = "module" THEN <<>> ELSE <<IND>>

\* The lines of a function as they stand in its file.
SourceLines(f) ==
    LET fd == Func(f)
        raw == fd.deco \o << <<"def", fd.name, "(", fd.param, ")", ":">> >> \o fd.body
    IN [i \in 1..Len(raw) |-> Indent(f) \o raw[i]]

\* inspect.getsource(func): the literal text, decorator lines included.
getsource(f) == TextOf(SourceLines(f))

\* The decorated functions (wrappers): the function wrapped, the closure cell
\* of the cycompile(...) call that made the decorator, and that call's
\* arguments as written (None when omitted, except opt with default "safe").
WrapperIds == {"square", "is_even", "is_odd", "f_sh", "g_sh", "twin_a", "twin_b",
               "p_sh", "q_sh", "tagged", "nosrc", "h_again", "class_method", "instance_method", "inner",
               "h_safe", "h_SAFE", "h_empty", "h_ab", "h_ba"}

Opts(opt, eca, cd, verbose) ==
    [opt |-> opt, extra_compile_args |-> eca, compiler_directives |-> cd,
     verbose |-> verbose]

Wrapper(w) ==
    CASE w \in {"square", "twin_a", "twin_b", "class_method", "instance_method", "inner",
                "tagged", "nosrc"} ->
            [func |-> w, cell |-> w] @@ Opts("safe", None, None, FALSE)
      [] w \in {"is_even", "is_odd"} ->
            [func |-> w, cell |-> w] @@ Opts("fast", None, None, TRUE)
      [] w \in {"f_sh", "g_sh"} ->
            \* dec = cycompile(); f_sh = dec(f_sh); g_sh = dec(g_sh)
            [func |-> w, cell |-> "dec"] @@ Opts("safe", None, None, FALSE)
      [] w \in {"p_sh", "q_sh"} ->
            \* plain = cycompile(); p_sh = plain(p_sh); q_sh = plain(q_sh)
            [func |-> w, cell |-> "plain"] @@ Opts("safe", None, None, FALSE)
      [] w \in {"h_safe", "h_again"} ->
            \* h_safe = cycompile(opt="safe")(h); h_again = cycompile(opt="safe")(h)
            [func |-> "h", cell |-> w] @@ Opts("safe", None, None, FALSE)
      [] w = "h_SAFE" ->
            [func |-> "h", cell |-> w] @@ Opts("SAFE", None, None, FALSE)
      [] w = "h_empty" ->
            [func |-> "h", cell |-> w] @@ Opts("safe", None, Some(<<>>), FALSE)
      [] w = "h_ab" ->
            [func |-> "h", cell |-> w] @@
            Opts("safe", None,
                 Some(<< <<"'boundscheck'", "False">>, <<"'wraparound'", "False">> >>), FALSE)
      [] w = "h_ba" ->
            [func |-> "h", cell |-> w] @@
            Opts("safe", None,
                 Some(<< <<"'wraparound'", "False">>, <<"'boundscheck'", "False">> >>), FALSE)

Cells == {Wrapper(w).cell : w \in WrapperIds}

\* The programs: each is one module holding some decorated functions.
ProgramIds == {"single", "mutual", "shared", "twins", "reuse", "scopes", "spell",
               "order", "dup", "bare", "repl", "pair"}

ProgWrappers(p) ==
    CASE p = "single" -> {"square"}
      [] p = "mutual" -> {"is_even", "is_odd"}
      [] p = "shared" -> {"f_sh", "g_sh"}
      [] p = "twins"  -> {"twin_a", "twin_b"}
      [] p = "reuse"  -> {"p_sh", "q_sh"}
      [] p = "scopes" -> {"class_method", "instance_method", "inner"}
      [] p = "spell"  -> {"h_safe", "h_SAFE", "h_empty"}
      [] p = "order"  -> {"h_ab", "h_ba"}
      [] p = "dup"    -> {"h_safe", "h_again", "h_SAFE", "h_empty"}
      [] p = "pair"   -> {"h_safe", "h_again"}
      [] p = "bare"   -> {"tagged"}
      [] p = "repl"   -> {"nosrc"}

\* The functions of a program in file order.
ProgFuncs(p) ==
    CASE p = "single" -> <<"square">>
      [] p = "mutual" -> <<"is_even", "is_odd">>
      [] p = "shared" -> <<"f_sh", "g_sh">>
      [] p = "twins"  -> <<"twin_a", "twin_b">>
      [] p = "reuse"  -> <<"p_sh", "q_sh">>
      [] p = "scopes" -> <<"class_method", "instance_method", "inner">>
      [] p = "spell"  -> <<"h">>
      [] p = "order"  -> <<"h">>
      [] p = "dup"    -> <<"h">>
      [] p = "pair"   -> <<"h">>
      [] p = "bare"   -> <<"tagged">>
      [] p = "repl"   -> <<>>

\* The module's name (current_module.__name__).
ModuleName == "app"

\* The library the module imports under the name lib; a later version of the
\* module may import another one under the same name.
Libs == {"liba", "libb"}

\* The lines of the module's file: its imports, then its functions.
RECURSIVE FuncLines(_)
FuncLines(fs) ==
    IF fs = <<>> THEN <<>> ELSE SourceLines(Head(fs)) \o FuncLines(Tail(fs))

FileLines(p, lib) ==
    << <<"from", "cycompile", "import", "cycompile">>,
       <<"from", lib, "import", "lib">> >> \o FuncLines(ProgFuncs(p))

\* inspect.getmembers(module, inspect.isfunction): every function bound at
\* module level, imported ones (cycompile itself) included.
ModuleFunctionNames(p) ==
    {"cycompile"} \cup
    {Func(ProgFuncs(p)[i]).name : i \in {j \in 1..Len(ProgFuncs(p)) :
                                          Func(ProgFuncs(p)[j]).scope = "module"}}

\* inspect.getmembers(module, inspect.isclass) defined in the module.
ModuleClassNames(p) == IF p = "scopes" THEN {"MyClass"} ELSE {}

(* ------------------------------------------------------- Unit Extractor *)

\* The decorators remove_decorators keeps.
keep_decorators == { <<"@", "staticmethod">>, <<"@", "classmethod">>, <<"@", "property">> }

\* remove_decorators' loop over the lines: the kept lines, given whether the
\* scan is inside a multi-line decorator.
RECURSIVE StripLoop(_, _)
StripLoop(lines, in_decorator) ==
    IF lines = <<>> THEN <<>>
    ELSE LET line == Head(lines)
             stripped == strip(line)
             rest == Tail(lines)
         IN IF in_decorator
            THEN StripLoop(rest, ~EndsWith(stripped, ")"))
            ELSE IF StartsWith(stripped, <<"@">>)
                 THEN IF \E d \in keep_decorators : StartsWith(stripped, d)
                      THEN <<line>> \o StripLoop(rest, FALSE)
                      ELSE StripLoop(rest, ~EndsWith(stripped, ")"))
                 ELSE <<line>> \o StripLoop(rest, FALSE)

\* remove_decorators on the source text inspect.getsource returned.
StripSource(source) == Join(<<NL>>, StripLoop(splitlines(source), FALSE))

\* remove_decorators(func): the source without the decorators it drops.
remove_decorators(f) == StripSource(getsource(f))

\* Tokens that are not names (punctuation, keywords, literals).
NonNames == WS \cup {NL, "@", "(", ")", ":", ".", ",", "=", "==", "-", "+",
                     "def", "return", "if", "else", "True", "False",
                     "0", "1", "3", "'text'", "'fast'"}

IsName(tok) == tok \notin NonNames

\* ast.parse(func_source) raises IndentationError ("unexpected indent") when
\* the first line of the source is indented.
\* Sensitivity variant: a parser that accepts indented source.
ParseAnything(text) == TRUE

ParseOk(text) == text = <<>> \/ Head(text) \notin WS

\* The names of ast.Call nodes whose func is a Name (f(...), decorator calls
\* included) or an Attribute of a Name (x.f(...) gives f).
CallNames(text) ==
    LET tok(i) == IF i >= 1 /\ i <= Len(text) THEN text[i] ELSE NL
    IN { text[i] : i \in { j \in 1..Len(text) :
            /\ IsName(text[j])
            /\ tok(j + 1) = "("
            /\ \/ tok(j - 1) \notin {".", "def"}
               \/ tok(j - 1) = "." /\ IsName(tok(j - 2)) /\ tok(j - 3) # "." } }

\* Sensitivity variant: no called function is found.
NoCalledFunctions(text, available) == {}

\* get_called_functions(func_source, available_functions)
get_called_functions(text, available) == CallNames(text) \cap available

\* The names extract_all_imports never imports.
exclude == {"cythonize_decorator", "cycompile"}

\* called_functions in extract_all_imports: the function's own name is taken
\* out of the function names, the class names are added, the names called in
\* the source are kept, the excluded names dropped.
CalledSiblings(name, source, function_names, class_names) ==
    get_called_functions(source, (function_names \ {name}) \cup class_names) \ exclude

\* A module's members as inspect.getmembers sees them: the name bound, what
\* it is bound to, and the module that object was defined in.
get_function_names(members) == {m.name : m \in {x \in members : x.kind = "function"}}

get_class_names(members, module_name) ==
    {m.name : m \in {x \in members : x.kind = "class" /\ x.home = module_name}}

\* Whether a token mentions one of the excluded names (excluded in stripped
\* is a substring test: a longer name that contains one mentions it).
Mentions(tok) == tok \in exclude \cup {"my_cycompile_tools"}

\* str.startswith(("import", "from")) is a test on characters: the first
\* token of the line is import or from, or a longer name beginning so.
HasImportPrefix(tok) == tok \in {"import", "from", "important", "from_disk"}

\* A set of names as a sequence (the model fixes one iteration order).
RECURSIVE SeqOfSet(_)
SeqOfSet(S) ==
    IF S = {} THEN <<>>
    ELSE LET x == CHOOSE y \in S : TRUE IN <<x>> \o SeqOfSet(S \ {x})

\* The lines of the source file that begin with import or from and mention
\* no excluded name, right-stripped.
RECURSIVE ScriptImports(_)
ScriptImports(lines) ==
    IF lines = <<>> THEN <<>>
    ELSE LET stripped == strip(Head(lines))
             keep == /\ stripped # <<>>
                     /\ HasImportPrefix(Head(stripped))
                     /\ ~\E i \in 1..Len(stripped) : Mentions(stripped[i])
         IN (IF keep THEN <<rstrip(Head(lines))>> ELSE <<>>) \o ScriptImports(Tail(lines))

\* extract_all_imports(func) for function f of program p, whose file imports
\* library lib: the file's import lines, a line break, then one import line
\* per sibling function or class the function calls.
extract_all_imports(p, lib, f) ==
    LET called_functions == CalledSiblings(Func(f).name, getsource(f),
                                           ModuleFunctionNames(p), ModuleClassNames(p))
        names == SeqOfSet(called_functions)
        user_func_imports ==
            Join(<<NL>>, [i \in 1..Len(names) |-> <<"from", ModuleName, "import", names[i]>>])
        script_imports == Join(<<NL>>, ScriptImports(FileLines(p, lib)))
    IN script_imports \o <<NL>> \o user_func_imports

\* generate_cython_source(func): the Translation Unit.
generate_cython_source(p, lib, f) ==
    extract_all_imports(p, lib, f) \o <<NL, NL>> \o remove_decorators(f)

\* generate_cython_source raises when ast.parse does (in get_called_functions).
ExtractionError(f) ==
    IF ParseOk(getsource(f)) THEN None ELSE Some("IndentationError")

(* ------------------------------------------------------ Profile Resolver *)

\* platform.system() == "Windows"
IS_WINDOWS == FALSE

\* A directive mapping written as a sequence of <<name, value>> pairs (a dict
\* keeps insertion order) and what it maps: a later pair wins.
DictOf(pairs) ==
    [k \in {pairs[i][1] : i \in 1..Len(pairs)} |->
        pairs[CHOOSE i \in 1..Len(pairs) :
                /\ pairs[i][1] = k
                /\ \A j \in (i + 1)..Len(pairs) : pairs[j][1] # k][2]]

\* Sensitivity variant: a default wins over its override.
MergeKeepDefaults(a, b) ==
    [k \in DOMAIN a \cup DOMAIN b |-> IF k \in DOMAIN a THEN a[k] ELSE b[k]]

\* {**a, **b}
MergeDict(a, b) ==
    [k \in DOMAIN a \cup DOMAIN b |-> IF k \in DOMAIN b THEN b[k] ELSE a[k]]

\* x or default, for an optional argument whose empty value is falsy too.
OrElse(x, default) == IF x = None \/ x[1] = <<>> THEN default ELSE x[1]

opt_profiles ==
    [safe |-> [directives |-> DictOf(<< <<"'language_level'", "3">> >>),
               flags |-> <<>>],
     fast |-> [directives |-> DictOf(<< <<"'language_level'", "3">>,
                                        <<"'boundscheck'", "False">>,
                                        <<"'wraparound'", "False">>,
                                        <<"'cdivision'", "True">>,
                                        <<"'nonecheck'", "False">> >>),
               flags |-> IF IS_WINDOWS THEN <<"/O2">>
                         ELSE <<"-Ofast", "-march=native", "-flto",
                                "-funroll-loops", "-ffast-math">>]]

\* Sensitivity variant: a name of no profile is taken for fast.
LowerUnknownFast(name) ==
    CASE name \in {"SAFE", "Safe", "safe"} -> "safe"
      [] name \in {"CUSTOM", "Custom", "custom"} -> "custom"
      [] OTHER -> "fast"

\* str.lower() on the profile names the programs use.
lower(name) ==
    CASE name \in {"SAFE", "Safe"} -> "safe"
      [] name \in {"FAST", "Fast"} -> "fast"
      [] name \in {"CUSTOM", "Custom"} -> "custom"
      [] OTHER -> name

\* Sensitivity variant: custom is merged with a profile like any other name.
ResolveAlwaysMerge(opt, extra_compile_args, compiler_directives) ==
    LET profile == IF lower(opt) \in DOMAIN opt_profiles
                   THEN opt_profiles[lower(opt)] ELSE opt_profiles["safe"]
    IN [directives |-> MergeDict(profile.directives,
                                 DictOf(OrElse(compiler_directives, <<>>))),
        flags |-> profile.flags \o OrElse(extra_compile_args, <<>>)]

\* The directives and flags run_cython_compile hands to the backend.
Resolve(opt, extra_compile_args, compiler_directives) ==
    IF opt = "custom"
    THEN [directives |-> DictOf(OrElse(compiler_directives, <<>>)),
          flags |-> OrElse(extra_compile_args, <<>>)]
    ELSE LET profile == IF lower(opt) \in DOMAIN opt_profiles
                        THEN opt_profiles[lower(opt)] ELSE opt_profiles["safe"]
         IN [directives |-> MergeDict(profile.directives,
                                      DictOf(OrElse(compiler_directives, <<>>))),
             flags |-> profile.flags \o OrElse(extra_compile_args, <<>>)]

(* ------------------------------------------------------ Cache Key Engine *)

\* str(d) of a dict and str(l) of a list, in insertion order.
StrDict(pairs) ==
    <<"{">> \o Join(<<",", " ">>, [i \in 1..Len(pairs) |->
                                    <<pairs[i][1], ":", " ", pairs[i][2]>>]) \o <<"}">>

StrList(flags) ==
    <<"[">> \o Join(<<",", " ">>, [i \in 1..Len(flags) |-> <<flags[i]>>]) \o <<"]">>

\* params: the decorator's arguments o as written, stringified; verbose is
\* not among them.
ParamsOf(o) ==
    (IF o.compiler_directives # None THEN StrDict(o.compiler_directives[1]) ELSE <<>>)
    \o (IF o.extra_compile_args # None THEN StrList(o.extra_compile_args[1]) ELSE <<>>)
    \o <<o.opt>>

params(w) == ParamsOf(Wrapper(w))

\* hashlib.md5(x).hexdigest(): an ideal digest, distinct texts have distinct
\* digests; the digest is represented by the text it stands for.
md5(text) == text

\* hash_key of a decoration with the arguments o of a function whose source
\* text is source.
KeyOf(o, source) == <<"mod_">> \o md5(ParamsOf(o) \o source)

\* hash_key of the wrapper of w.
hash_key(w) == KeyOf(Wrapper(w), getsource(Wrapper(w).func))

(* ------------------------------------------- compiled modules and values *)

\* Python values returned by the functions of the programs.
IntVal(i) == [int |-> i]
BoolVal(b) == [bool |-> b]
NoneVal == [none |-> TRUE]

\* lib.f(n) and lib.g(n) of the two libraries.
LibVal(lib, fn, n) ==
    IntVal((IF lib = "liba" THEN 0 ELSE 100) + (IF fn = "f" THEN n + 1 ELSE n + 2))

\* The line of a text that defines name at module level (0 when none does).
DefLine(lines, name) ==
    IF \E i \in 1..Len(lines) : StartsWith(lines[i], <<"def", name>>)
    THEN CHOOSE i \in 1..Len(lines) : StartsWith(lines[i], <<"def", name>>)
    ELSE 0

\* The names a compiled module binds: its module-level defs and its imports.
Exports(unit) ==
    LET lines == splitlines(unit)
    IN {lines[i][2] : i \in {j \in 1..Len(lines) : StartsWith(lines[j], <<"def">>)}}
       \cup {lines[i][4] : i \in {j \in 1..Len(lines) :
                                   StartsWith(lines[j], <<"from">>) /\ Len(lines[j]) >= 4}}

\* The library a text binds to the name lib.
LibOf(lines) ==
    IF \E i \in 1..Len(lines) : \E l \in Libs : lines[i] = <<"from", l, "import", "lib">>
    THEN CHOOSE l \in Libs : \E i \in 1..Len(lines) : lines[i] = <<"from", l, "import", "lib">>
    ELSE "none"

\* What the function name of a text does when called: return lib.fn(n), or
\* return base at 0 and callee(n - 1) otherwise, or print and return None.
Meaning(text, name) ==
    LET lines == splitlines(text)
        d == DefLine(lines, name)
        first == strip(lines[d + 1])
    IN IF StartsWith(first, <<"return", "lib", ".">>)
       THEN [kind |-> "leaf", lib |-> LibOf(lines), fn |-> first[4]]
       ELSE IF StartsWith(first, <<"if">>)
       THEN [kind |-> "rec", base |-> BoolVal(strip(lines[d + 2])[2] = "True"),
             callee |-> strip(lines[d + 4])[2]]
       ELSE [kind |-> "print"]

\* The wrapper a module-level name is bound to in program p.
ModuleBinding(p, name) ==
    CHOOSE w \in ProgWrappers(p) : Func(Wrapper(w).func).name = name

\* The library the running module imports.
CurrentLib == "liba"

\* What the original (uncompiled) function f of program p returns on n.
RECURSIVE PyEval(_, _, _)
PyEval(p, f, n) ==
    LET m == Meaning(TextOf(FileLines(p, CurrentLib)), Func(f).name)
    IN CASE m.kind = "leaf" -> LibVal(m.lib, m.fn, n)
         [] m.kind = "rec" ->
              IF n = 0 THEN m.base
              ELSE PyEval(p, Wrapper(ModuleBinding(p, m.callee)).func, n - 1)
         [] OTHER -> NoneVal

(* ------------------------------------ what each call computes, tabulated *)

\* hash_key, the extraction error and the Translation Unit depend only on the
\* function, its file and the decorator's arguments: the wrapper computes the
\* same values on every call, and they are tabulated here once.
HashKeys == [w \in WrapperIds |-> hash_key(w)]

ExtractionErrors == [f \in FuncIds |-> ExtractionError(f)]

Units == [p \in ProgramIds |-> [lib \in Libs |-> [f \in FuncIds |->
             generate_cython_source(p, lib, f)]]]

\* Every text a module of the cache directory can have been compiled from,
\* with the names it binds and what each of its functions does.
UnitTexts == {Units[p][lib][f] : p \in ProgramIds, lib \in Libs, f \in FuncIds}

FuncNames == {Func(f).name : f \in FuncIds}

ModuleExports == [u \in UnitTexts |-> Exports(u)]

\* The names of the module compiled from a file of the cache root: a
\* Translation Unit, or the empty text of a staging file just opened.
NamesOf(content) == IF content = <<>> THEN {} ELSE ModuleExports[content]

Meanings == [u \in UnitTexts |-> [name \in FuncNames |-> Meaning(u, name)]]

(* ------------------------------------------------------------- the state *)

Threads == {"main", "worker"}

VARIABLES
    prog,                 \* the program (module) this process runs
    compiled_func,        \* the closure cell of each cycompile(...) call: None or a callable
    compiled_func_cache,  \* the in-process tier, an OrderedDict: a sequence of [key, fn]
    cache_dir,            \* the files of CACHE_DIR: [name, ext, content]
    sys_path,             \* sys.path
    stack,                \* per thread, the call stack (frames, innermost last)
    ret,                  \* per thread, the outcome of its last finished top-level call
    builds,               \* per wrapper, how often its calls invoked the backend
    nfail,                \* how many backend runs have failed
    called,               \* the wrappers called so far in this process
    disk0,                \* the files CACHE_DIR held when the process started
    resolve_call,         \* the last run_cython_compile resolution: its arguments and result
    extract_call          \* the last call of an extraction or key function: its input and output

vars == <<prog, compiled_func, compiled_func_cache, cache_dir, sys_path, stack,
          ret, builds, nfail, called, disk0, resolve_call, extract_call>>

\* The platform's extension of a compiled module.
extension == IF IS_WINDOWS THEN "pyd" ELSE "so"

\* str(CACHE_DIR)
CACHE_DIR == "cycache"

\* A loaded symbol: the function name of the module key, built from unit.
Callable(key, name, unit) == [key |-> key, name |-> name, unit |-> unit]

File(name, ext, content) == [name |-> name, ext |-> ext, content |-> content]

\* open(path, "w").write(content), or the backend writing its artifact: the
\* file of that name is replaced.
\* Sensitivity variant: the directory is emptied before the write.
WriteFileFresh(dir, name, ext, content) == {File(name, ext, content)}

WriteFile(dir, name, ext, content) ==
    {x \in dir : ~(x.name = name /\ x.ext = ext)} \cup {File(name, ext, content)}

\* CACHE_DIR.glob(f"{hash_key}*.{extension}"): digests have a fixed length, so
\* a file name begins with hash_key only if its digest is hash_key's.
Glob(dir, key) == {x \in dir : x.name = key /\ x.ext = extension}

\* hash_key in compiled_func_cache, and compiled_func_cache[hash_key].
InCache(cache, key) == \E i \in 1..Len(cache) : cache[i].key = key
CacheGet(cache, key) == cache[CHOOSE i \in 1..Len(cache) : cache[i].key = key].fn

\* compiled_func_cache[hash_key] = fn: a present key keeps its place.
CachePut(cache, key, fn) ==
    IF InCache(cache, key)
    THEN [i \in 1..Len(cache) |-> IF cache[i].key = key THEN [key |-> key, fn |-> fn]
                                  ELSE cache[i]]
    ELSE Append(cache, [key |-> key, fn |-> fn])

\* The mapping after compiled_func_cache[hash_key] was read: reading an
\* OrderedDict entry leaves the order of the entries as it is.
\* Sensitivity variant: a read moves the entry to the end (recency order).
MoveToEnd(cache, key) ==
    LET i == CHOOSE j \in 1..Len(cache) : cache[j].key = key
    IN SubSeq(cache, 1, i - 1) \o SubSeq(cache, i + 1, Len(cache)) \o <<cache[i]>>

AfterGet(cache, key) == cache

\* compiled_func_cache.popitem(last=False)
\* Sensitivity variant: nothing is removed.
PopNothing(cache) == cache

PopOldest(cache) == Tail(cache)

\* Frames: a wrapper invocation (its position pc and its locals) or the body
\* of a compiled function running on arg.
WFrame(w, n, again) ==
    [kind |-> "wrapper", w |-> w, pc |-> "L390", arg |-> n, again |-> again,
     hash_key |-> <<>>,
     compiled_matches |-> FALSE, source_code |-> <<>>, module |-> None,
     exc |-> None, fn |-> None, val |-> None]

CFrame(w, fn, n) ==
    [kind |-> "compiled", w |-> w, pc |-> "run", arg |-> n, again |-> FALSE,
     hash_key |-> <<>>,
     compiled_matches |-> FALSE, source_code |-> <<>>, module |-> None,
     exc |-> None, fn |-> Some(fn), val |-> None]

NoRet == [status |-> "none", w |-> "", arg |-> 0, val |-> NoneVal, err |-> ""]

Top(t) == stack[t][Len(stack[t])]
At(t, pc) == stack[t] # <<>> /\ Top(t).kind = "wrapper" /\ Top(t).pc = pc
SetTop(t, fr) == [stack EXCEPT ![t] = [@ EXCEPT ![Len(@)] = fr]]
Goto(t, pc) == SetTop(t, [Top(t) EXCEPT !.pc = pc])
\* The top frame moves to pc and calls: frame fr is pushed on it.
PushOn(t, pc, fr) == [stack EXCEPT ![t] = Append([@ EXCEPT ![Len(@)].pc = pc], fr)]

\* The artifacts an earlier run of program p, whose module imported lib0, left
\* for the wrappers in S: the staged source and the compiled module of each.
EarlierRun(p, lib0, S) ==
    UNION {{File(HashKeys[w], "pyx", Units[p][lib0][Wrapper(w).func]),
            File(HashKeys[w], extension, Units[p][lib0][Wrapper(w).func])}
           : w \in S}

\* The wrappers of a program whose extraction succeeds (only they are built).
Buildable(p) ==
    {w \in ProgWrappers(p) :
        Wrapper(w).func \notin NoSource /\ ExtractionErrors[Wrapper(w).func] = None}

Init ==
    /\ prog \in ProgramIds
    /\ compiled_func = [c \in Cells |-> None]
    /\ compiled_func_cache = <<>>
    /\ \E lib0 \in Libs : \E S \in SUBSET Buildable(prog) :
          cache_dir = EarlierRun(prog, lib0, S)
    /\ disk0 = cache_dir
    /\ sys_path = <<"site-packages">>
    /\ stack = [t \in Threads |-> <<>>]
    /\ ret = [t \in Threads |-> NoRet]
    /\ builds = [w \in WrapperIds |-> 0]
    /\ nfail = 0
    /\ called = {}
    /\ resolve_call = None
    /\ extract_call = None

(* ----------------------------------------------------------- the wrapper *)

\* An exception leaves the wrapper: no frame of the thread handles it (every
\* caller is at a call outside its try blocks), so the top-level call fails.
\* Sensitivity variant: the wrapper catches the exception and falls back to
\* the original function.
RaiseFallback(t, err) ==
    /\ stack' = [stack EXCEPT ![t] = <<>>]
    /\ ret' = [ret EXCEPT ![t] =
                 [status |-> "value", w |-> stack[t][1].w, arg |-> stack[t][1].arg,
                  val |-> PyEval(prog, Wrapper(stack[t][1].w).func, stack[t][1].arg),
                  err |-> ""]]

Raise(t, err) ==
    /\ stack' = [stack EXCEPT ![t] = <<>>]
    /\ ret' = [ret EXCEPT ![t] = [status |-> "error", w |-> stack[t][1].w,
                                  arg |-> stack[t][1].arg, val |-> NoneVal, err |-> err]]

\* sys.path.pop()
PathPop(path) == SubSeq(path, 1, Len(path) - 1)

\* A thread calls a decorated function of the program on an argument of args.
CallWith(t, args) ==
    /\ stack[t] = <<>>
    /\ \E w \in ProgWrappers(prog) : \E n \in args :
          /\ stack' = [stack EXCEPT ![t] = <<WFrame(w, n, w \in called)>>]
          /\ called' = called \cup {w}
    /\ ret' = [ret EXCEPT ![t] = NoRet]
    /\ UNCHANGED <<prog, resolve_call, extract_call, compiled_func, compiled_func_cache, cache_dir, sys_path,
                   builds, nfail, disk0>>

Call(t) == CallWith(t, 0..MaxArg)

\* A call made while another thread may be inside the wrapper.
CallThread(t) == CallWith(t, 0..MaxThreadArg)

\* if compiled_func is not None: return compiled_func(*args, **kwargs)
\* Sensitivity variant: the check is skipped and every call resolves anew.
CheckSlotCold(t) ==
    /\ At(t, "L390")
    /\ stack' = Goto(t, "L394")
    /\ UNCHANGED <<prog, resolve_call, extract_call, compiled_func, compiled_func_cache,
                   cache_dir, sys_path, ret, builds, nfail, called, disk0>>

CheckSlot(t) ==
    /\ At(t, "L390")
    /\ LET fr == Top(t)
           slot == compiled_func[Wrapper(fr.w).cell]
       IN stack' = IF slot # None THEN PushOn(t, "L391", CFrame(fr.w, slot[1], fr.arg))
                   ELSE Goto(t, "L394")
    /\ UNCHANGED <<prog, resolve_call, extract_call, compiled_func, compiled_func_cache, cache_dir, sys_path,
                   ret, builds, nfail, called, disk0>>

\* params = ...; hash_key = "mod_" + md5(params + getsource(func))
ComputeKey(t) ==
    /\ At(t, "L394")
    /\ IF Wrapper(Top(t).w).func \in NoSource
       THEN Raise(t, "OSError")
       ELSE /\ stack' = SetTop(t, [Top(t) EXCEPT !.hash_key = HashKeys[Top(t).w],
                                                 !.pc = "L408"])
            /\ ret' = ret
    /\ UNCHANGED <<prog, resolve_call, extract_call, compiled_func, compiled_func_cache, cache_dir, sys_path,
                   builds, nfail, called, disk0>>

\* Sensitivity variant: the test of compiled_matches is inverted.
LookupDiskInverted(t) ==
    /\ At(t, "L408")
    /\ LET m == Glob(cache_dir, Top(t).hash_key) # {}
       IN stack' = SetTop(t, [Top(t) EXCEPT !.compiled_matches = m,
                                            !.pc = IF m THEN "L425" ELSE "L412"])
    /\ UNCHANGED <<prog, resolve_call, extract_call, compiled_func, compiled_func_cache, cache_dir, sys_path,
                   ret, builds, nfail, called, disk0>>

\* compiled_matches = list(CACHE_DIR.glob(...)); if compiled_matches: ... else: ...
\* Sensitivity variant: the matches are listed but the build branch is taken
\* whatever they are.
LookupDiskRebuild(t) ==
    /\ At(t, "L408")
    /\ stack' = SetTop(t, [Top(t) EXCEPT
                              !.compiled_matches = Glob(cache_dir, Top(t).hash_key) # {},
                              !.pc = "L425"])
    /\ UNCHANGED <<prog, resolve_call, extract_call, compiled_func, compiled_func_cache,
                   cache_dir, sys_path, ret, builds, nfail, called, disk0>>

LookupDisk(t) ==
    /\ At(t, "L408")
    /\ LET m == Glob(cache_dir, Top(t).hash_key) # {}
       IN stack' = SetTop(t, [Top(t) EXCEPT !.compiled_matches = m,
                                            !.pc = IF m THEN "L412" ELSE "L425"])
    /\ UNCHANGED <<prog, resolve_call, extract_call, compiled_func, compiled_func_cache, cache_dir, sys_path,
                   ret, builds, nfail, called, disk0>>

\* if hash_key in compiled_func_cache: compiled_func = ...; return compiled_func(...)
LookupLoaded(t) ==
    /\ At(t, "L412")
    /\ LET fr == Top(t)
           hit == InCache(compiled_func_cache, fr.hash_key)
           fn == CacheGet(compiled_func_cache, fr.hash_key)
       IN /\ compiled_func' = IF hit THEN [compiled_func EXCEPT ![Wrapper(fr.w).cell] = Some(fn)]
                              ELSE compiled_func
          /\ compiled_func_cache' = IF hit THEN AfterGet(compiled_func_cache, fr.hash_key)
                                    ELSE compiled_func_cache
          /\ stack' = IF hit THEN PushOn(t, "L416", CFrame(fr.w, fn, fr.arg))
                      ELSE Goto(t, "L454")
    /\ UNCHANGED <<prog, resolve_call, extract_call, cache_dir, sys_path,
                   ret, builds, nfail, called, disk0>>

\* source_code = generate_cython_source(func)
GenerateSource(t) ==
    /\ At(t, "L425")
    /\ LET f == Wrapper(Top(t).w).func
           e == ExtractionErrors[f]
       IN IF e # None
          THEN Raise(t, e[1])
          ELSE /\ stack' = SetTop(t, [Top(t) EXCEPT
                            !.source_code = Units[prog][CurrentLib][f],
                            !.pc = "L437"])
               /\ ret' = ret
    /\ UNCHANGED <<prog, resolve_call, extract_call, compiled_func, compiled_func_cache, cache_dir, sys_path,
                   builds, nfail, called, disk0>>

\* pyx_file = CACHE_DIR / f"{hash_key}.pyx"; with open(pyx_file, "w") as f:
\* opening for writing creates the file or truncates it to nothing.
OpenStage(t) ==
    /\ At(t, "L437")
    /\ cache_dir' = WriteFile(cache_dir, Top(t).hash_key, "pyx", <<>>)
    /\ stack' = Goto(t, "L438")
    /\ UNCHANGED <<prog, resolve_call, extract_call, compiled_func, compiled_func_cache, sys_path,
                   ret, builds, nfail, called, disk0>>

\* f.write(source_code), and the file is closed: the text is in the file.
StageSource(t) ==
    /\ At(t, "L438")
    /\ cache_dir' = WriteFile(cache_dir, Top(t).hash_key, "pyx", Top(t).source_code)
    /\ stack' = Goto(t, "L304")
    /\ UNCHANGED <<prog, resolve_call, extract_call, compiled_func, compiled_func_cache, sys_path,
                   ret, builds, nfail, called, disk0>>

\* run_cython_compile: sys.path.append(str(CACHE_DIR))
BuildPathAppend(t) ==
    /\ At(t, "L304")
    /\ sys_path' = Append(sys_path, CACHE_DIR)
    /\ stack' = Goto(t, "L324")
    /\ UNCHANGED <<prog, resolve_call, extract_call, compiled_func, compiled_func_cache, cache_dir,
                   ret, builds, nfail, called, disk0>>

\* What the backend leaves in output_dir when it succeeds: the module compiled
\* from the staged file, named after the file's base name.
BackendOutput(dir, key) ==
    WriteFile(dir, key, extension,
              (CHOOSE x \in dir : x.name = key /\ x.ext = "pyx").content)

\* run_cython_compile: setup(... cythonize([ext]) ...) succeeds.
BackendOk(t) ==
    /\ At(t, "L324")
    /\ builds' = [builds EXCEPT ![Top(t).w] = @ + 1]
    /\ cache_dir' = BackendOutput(cache_dir, Top(t).hash_key)
    /\ stack' = Goto(t, "L338")
    /\ UNCHANGED <<prog, resolve_call, extract_call, compiled_func, compiled_func_cache, sys_path,
                   ret, nfail, called, disk0>>

\* run_cython_compile: setup(...) raises (the backend rejects the unit or the
\* configuration); the temporary build directory is removed.
BackendFail(t) ==
    /\ At(t, "L324")
    /\ nfail < MaxFail
    /\ nfail' = nfail + 1
    /\ builds' = [builds EXCEPT ![Top(t).w] = @ + 1]
    /\ stack' = SetTop(t, [Top(t) EXCEPT !.exc = Some("CompileError"), !.pc = "L338"])
    /\ UNCHANGED <<prog, resolve_call, extract_call, compiled_func, compiled_func_cache, cache_dir, sys_path,
                   ret, called, disk0>>

\* run_cython_compile: finally: sys.path.pop()
BuildPathPop(t) ==
    /\ At(t, "L338")
    /\ sys_path' = PathPop(sys_path)
    /\ IF Top(t).exc # None
       THEN Raise(t, Top(t).exc[1])
       ELSE stack' = Goto(t, "L454") /\ ret' = ret
    /\ UNCHANGED <<prog, resolve_call, extract_call, compiled_func, compiled_func_cache, cache_dir,
                   builds, nfail, called, disk0>>

\* sys.path.append(str(CACHE_DIR))
LoadPathAppend(t) ==
    /\ At(t, "L454")
    /\ sys_path' = Append(sys_path, CACHE_DIR)
    /\ stack' = Goto(t, "L458")
    /\ UNCHANGED <<prog, resolve_call, extract_call, compiled_func, compiled_func_cache, cache_dir,
                   ret, builds, nfail, called, disk0>>

\* The importer's search of sys.path for a module named key.
FindModule(path, dir, key) ==
    IF CACHE_DIR \in Range(path) THEN {x \in dir : x.name = key /\ x.ext = extension}
    ELSE {}

\* module = __import__(hash_key)
ImportModule(t) ==
    /\ At(t, "L458")
    /\ LET found == FindModule(sys_path, cache_dir, Top(t).hash_key)
       IN stack' = IF found # {}
                   THEN SetTop(t, [Top(t) EXCEPT
                                   !.module = Some((CHOOSE x \in found : TRUE).content),
                                   !.pc = "L461"])
                   ELSE SetTop(t, [Top(t) EXCEPT !.exc = Some("ImportError"), !.pc = "L472"])
    /\ UNCHANGED <<prog, resolve_call, extract_call, compiled_func, compiled_func_cache, cache_dir, sys_path,
                   ret, builds, nfail, called, disk0>>

\* compiled_func = getattr(module, func.__name__)
\* Sensitivity variant: getattr with a default, so that a module without the
\* name raises nothing and the wrapper goes on to the in-process store.
GetSymbolDefault(t) ==
    /\ At(t, "L461")
    /\ LET fr == Top(t)
           name == Func(Wrapper(fr.w).func).name
       IN compiled_func' =
             IF name \in NamesOf(fr.module[1])
             THEN [compiled_func EXCEPT ![Wrapper(fr.w).cell] =
                       Some(Callable(fr.hash_key, name, fr.module[1]))]
             ELSE compiled_func
    /\ stack' = Goto(t, "L464")
    /\ UNCHANGED <<prog, resolve_call, extract_call, compiled_func_cache, cache_dir, sys_path,
                   ret, builds, nfail, called, disk0>>

\* Sensitivity variant: the attribute is looked up but the slot is not
\* assigned before the call goes on.
GetSymbolUnstored(t) ==
    /\ At(t, "L461")
    /\ LET fr == Top(t)
           ok == Func(Wrapper(fr.w).func).name \in NamesOf(fr.module[1])
       IN stack' = IF ok THEN Goto(t, "L464")
                   ELSE SetTop(t, [fr EXCEPT !.exc = Some("AttributeError"), !.pc = "L472"])
    /\ UNCHANGED <<prog, resolve_call, extract_call, compiled_func, compiled_func_cache,
                   cache_dir, sys_path, ret, builds, nfail, called, disk0>>

GetSymbol(t) ==
    /\ At(t, "L461")
    /\ LET fr == Top(t)
           name == Func(Wrapper(fr.w).func).name
           ok == name \in NamesOf(fr.module[1])
       IN /\ compiled_func' =
                IF ok THEN [compiled_func EXCEPT ![Wrapper(fr.w).cell] =
                                Some(Callable(fr.hash_key, name, fr.module[1]))]
                ELSE compiled_func
          /\ stack' = IF ok THEN Goto(t, "L464")
                      ELSE SetTop(t, [fr EXCEPT !.exc = Some("AttributeError"), !.pc = "L472"])
    /\ UNCHANGED <<prog, resolve_call, extract_call, compiled_func_cache, cache_dir, sys_path,
                   ret, builds, nfail, called, disk0>>

\* if len(compiled_func_cache) >= MAX_CACHE_SIZE: compiled_func_cache.popitem(last=False)
\* Sensitivity variant: the slots that hold the evicted callable are reset
\* with it.
EvictOldestAndSlot(t) ==
    /\ At(t, "L464")
    /\ LET full == Len(compiled_func_cache) >= MAX_CACHE_SIZE
       IN /\ compiled_func_cache' = IF full THEN PopOldest(compiled_func_cache)
                                     ELSE compiled_func_cache
          /\ compiled_func' =
                [c \in Cells |->
                    IF /\ full /\ compiled_func[c] # None
                       /\ compiled_func[c][1].key = Head(compiled_func_cache).key
                       /\ compiled_func[c][1].key # Top(t).hash_key
                    THEN None ELSE compiled_func[c]]
    /\ stack' = Goto(t, "L468")
    /\ UNCHANGED <<prog, resolve_call, extract_call, cache_dir, sys_path,
                   ret, builds, nfail, called, disk0>>

EvictOldest(t) ==
    /\ At(t, "L464")
    /\ compiled_func_cache' = IF Len(compiled_func_cache) >= MAX_CACHE_SIZE
                              THEN PopOldest(compiled_func_cache)
                              ELSE compiled_func_cache
    /\ stack' = Goto(t, "L468")
    /\ UNCHANGED <<prog, resolve_call, extract_call, compiled_func, cache_dir, sys_path,
                   ret, builds, nfail, called, disk0>>

\* compiled_func_cache[hash_key] = compiled_func
StoreLoaded(t) ==
    /\ At(t, "L468")
    /\ compiled_func_cache' = CachePut(compiled_func_cache, Top(t).hash_key,
                                       compiled_func[Wrapper(Top(t).w).cell][1])
    /\ stack' = Goto(t, "L472")
    /\ UNCHANGED <<prog, resolve_call, extract_call, compiled_func, cache_dir, sys_path,
                   ret, builds, nfail, called, disk0>>

\* finally: sys.path.pop()
\* Sensitivity variant: the pop follows the try block instead of standing in
\* a finally clause, so an exception skips it.
LoadPathPopAfterTry(t) ==
    /\ At(t, "L472")
    /\ IF Top(t).exc # None
       THEN Raise(t, Top(t).exc[1]) /\ sys_path' = sys_path
       ELSE stack' = Goto(t, "L475") /\ ret' = ret /\ sys_path' = PathPop(sys_path)
    /\ UNCHANGED <<prog, resolve_call, extract_call, compiled_func, compiled_func_cache, cache_dir,
                   builds, nfail, called, disk0>>

LoadPathPop(t) ==
    /\ At(t, "L472")
    /\ sys_path' = PathPop(sys_path)
    /\ IF Top(t).exc # None
       THEN Raise(t, Top(t).exc[1])
       ELSE stack' = Goto(t, "L475") /\ ret' = ret
    /\ UNCHANGED <<prog, resolve_call, extract_call, compiled_func, compiled_func_cache, cache_dir,
                   builds, nfail, called, disk0>>

\* return compiled_func(*args, **kwargs)
Forward(t) ==
    /\ At(t, "L475")
    /\ stack' = PushOn(t, "L475r",
                       CFrame(Top(t).w, compiled_func[Wrapper(Top(t).w).cell][1], Top(t).arg))
    /\ UNCHANGED <<prog, resolve_call, extract_call, compiled_func, compiled_func_cache, cache_dir, sys_path,
                   ret, builds, nfail, called, disk0>>

(* ------------------------------------------------ the compiled functions *)

\* The body of a compiled function runs: it returns a value, or calls the
\* sibling its module imported by name (the sibling's wrapper).  A name the
\* module never imported is a NameError.
RunCompiled(t) ==
    /\ stack[t] # <<>>
    /\ Top(t).kind = "compiled"
    /\ Top(t).pc = "run"
    /\ LET fr == Top(t)
           unit == fr.fn[1].unit
           m == Meanings[unit][fr.fn[1].name]
           callee == ModuleBinding(prog, m.callee)
       IN IF m.kind = "rec" /\ fr.arg > 0
          THEN IF m.callee \in ModuleExports[unit]
               THEN /\ stack' = PushOn(t, "wait", WFrame(callee, fr.arg - 1, callee \in called))
                    /\ called' = called \cup {callee}
                    /\ ret' = ret
               ELSE Raise(t, "NameError") /\ called' = called
          ELSE IF m.kind = "leaf" /\ m.lib = "none"
          THEN Raise(t, "NameError") /\ called' = called
          ELSE /\ stack' = SetTop(t, [fr EXCEPT
                    !.val = Some(CASE m.kind = "leaf" -> LibVal(m.lib, m.fn, fr.arg)
                                   [] m.kind = "rec" -> m.base
                                   [] OTHER -> NoneVal),
                    !.pc = "done"])
               /\ called' = called
               /\ ret' = ret
    /\ UNCHANGED <<prog, resolve_call, extract_call, compiled_func, compiled_func_cache, cache_dir, sys_path,
                   builds, nfail, disk0>>

\* A frame whose callee returned (or whose body finished) returns that value
\* to its caller; the outermost frame's value is the call's result.
Return(t) ==
    /\ stack[t] # <<>>
    /\ Top(t).val # None
    /\ LET n == Len(stack[t])
       IN IF n = 1
          THEN /\ stack' = [stack EXCEPT ![t] = <<>>]
               /\ ret' = [ret EXCEPT ![t] = [status |-> "value", w |-> Top(t).w,
                                             arg |-> Top(t).arg, val |-> Top(t).val[1],
                                             err |-> ""]]
          ELSE /\ stack' = [stack EXCEPT ![t] =
                              [SubSeq(@, 1, n - 1) EXCEPT ![n - 1].val = Top(t).val]]
               /\ ret' = ret
    /\ UNCHANGED <<prog, resolve_call, extract_call, compiled_func, compiled_func_cache, cache_dir, sys_path,
                   builds, nfail, called, disk0>>

\* One step of a call in progress in thread t.
Run(t) ==
    \/ CheckSlot(t)
    \/ ComputeKey(t)
    \/ LookupDisk(t)
    \/ LookupLoaded(t)
    \/ GenerateSource(t)
    \/ OpenStage(t)
    \/ StageSource(t)
    \/ BuildPathAppend(t)
    \/ BackendOk(t)
    \/ BackendFail(t)
    \/ BuildPathPop(t)
    \/ LoadPathAppend(t)
    \/ ImportModule(t)
    \/ GetSymbol(t)
    \/ EvictOldest(t)
    \/ StoreLoaded(t)
    \/ LoadPathPop(t)
    \/ Forward(t)
    \/ RunCompiled(t)
    \/ Return(t)

\* The program calls its decorated functions from one thread.
Next == Call("main") \/ Run("main")

Spec == Init /\ [][Next]_vars

\* The mutual recursion example alone; a call in progress keeps running (the
\* interpreter executes the calling thread until the call returns or raises).
InitMutual == Init /\ prog = "mutual"

SpecMutual == InitMutual /\ [][Next]_vars /\ WF_vars(Run("main"))

\* Two threads call the functions of the program that applies one decorator
\* object to two functions, on an empty cache root; a thread is preempted
\* between any two steps.
InitThreads == Init /\ prog = "shared" /\ disk0 = {}

NextThreads == \E t \in Threads : CallThread(t) \/ Run(t)

SpecThreads == InitThreads /\ [][NextThreads]_vars

\* clear_cache(), imported by examples/simple_demo.py from the package; its
\* definition is not among the sources, so it is modelled from its
\* description: it empties the in-process tier and does nothing else.  It is
\* called between two calls of decorated functions.
\* Sensitivity variant: the operation also empties the cache root.
ClearEverything ==
    /\ stack["main"] = <<>>
    /\ compiled_func_cache' = <<>>
    /\ cache_dir' = {}
    /\ ret' = [ret EXCEPT !["main"] = [NoRet EXCEPT !.status = "cleared"]]
    /\ UNCHANGED <<prog, resolve_call, extract_call, compiled_func, sys_path, stack,
                   builds, nfail, called, disk0>>

clear_cache ==
    /\ stack["main"] = <<>>
    /\ compiled_func_cache' = <<>>
    /\ ret' = [ret EXCEPT !["main"] = [NoRet EXCEPT !.status = "cleared"]]
    /\ UNCHANGED <<prog, resolve_call, extract_call, compiled_func, cache_dir, sys_path, stack,
                   builds, nfail, called, disk0>>

\* The operator of the machine removes an artifact from the cache root
\* between two calls (the cache root is theirs to manage; this system never
\* removes a file).
OperatorRemoves ==
    /\ stack["main"] = <<>>
    /\ \E x \in {y \in cache_dir : y.ext = extension} : cache_dir' = cache_dir \ {x}
    /\ UNCHANGED <<prog, resolve_call, extract_call, compiled_func, compiled_func_cache,
                   sys_path, stack, ret, builds, nfail, called, disk0>>

\* Two wrappers of one function with one identifier, in a cache root the
\* operator prunes.
InitOperator == Init /\ prog = "pair"

NextOperator == Next \/ OperatorRemoves

SpecOperator == InitOperator /\ [][NextOperator]_vars

\* One step of a call that finds its artifact in the cache root: the slot
\* check, the identifier, the two lookups, the load and the store, and the
\* compiled function itself.  The build branch (lines 421-448) is not
\* reached from a cache root that holds every artifact.
RunLoad(t) ==
    \/ CheckSlot(t)
    \/ ComputeKey(t)
    \/ LookupDisk(t)
    \/ LookupLoaded(t)
    \/ LoadPathAppend(t)
    \/ ImportModule(t)
    \/ GetSymbol(t)
    \/ EvictOldest(t)
    \/ StoreLoaded(t)
    \/ LoadPathPop(t)
    \/ Forward(t)
    \/ RunCompiled(t)
    \/ Return(t)

\* Two threads call the three wrappers of one function (three identifiers,
\* three decorator objects) in a process whose cache root holds the artifact
\* of each from an earlier run; a thread is preempted between any two steps.
InitStore == Init /\ prog = "spell" /\ disk0 = EarlierRun(prog, "liba", Buildable(prog))

NextStore == \E t \in Threads : CallThread(t) \/ RunLoad(t)

SpecStore == InitStore /\ [][NextStore]_vars

\* A program with three identifiers, whose calls alternate with clear_cache().
InitClear == Init /\ prog = "spell"

NextClear == Next \/ clear_cache

SpecClear == InitClear /\ [][NextClear]_vars

\* The arguments run_cython_compile is given: profile names (the named ones,
\* other spellings of them, and names of no profile), directive mappings and
\* flag lists (None when omitted).
ProfileNames == {"safe", "fast", "custom", "SAFE", "Fast", "CUSTOM", "turbo", ""}

DirectiveArgs ==
    {None, Some(<<>>),
     Some(<< <<"'boundscheck'", "True">> >>),
     Some(<< <<"'nonecheck'", "True">>, <<"'boundscheck'", "True">> >>),
     Some(<< <<"'language_level'", "2">> >>),
     Some(<< <<"'infer_types'", "True">> >>),
     Some(<< <<"'language_level'", "3">>, <<"'boundscheck'", "False">>,
             <<"'wraparound'", "False">> >>)}

FlagArgs ==
    {None, Some(<<>>), Some(<<"-fno-fast-math">>),
     Some(<<"-fno-fast-math", "-funroll-loops">>), Some(<<"-O3", "-mtune=native">>)}

\* run_cython_compile resolves the configuration of one set of arguments.
ResolveCall ==
    /\ \E opt \in ProfileNames : \E cd \in DirectiveArgs : \E eca \in FlagArgs :
          resolve_call' = Some([opt |-> opt, extra_compile_args |-> eca,
                                compiler_directives |-> cd,
                                config |-> Resolve(opt, eca, cd)])
    /\ UNCHANGED <<prog, extract_call, compiled_func, compiled_func_cache, cache_dir, sys_path, stack,
                   ret, builds, nfail, called, disk0>>

\* The resolver alone, applied to every combination of the arguments.
InitResolve == Init /\ prog = "single" /\ disk0 = {}

SpecResolve == InitResolve /\ [][ResolveCall]_vars

\* The ways this system's decorator is written above a function: on one line,
\* or as an invocation spread over several lines.
OwnDecorators ==
    { DecoPlain,
      DecoFast,
      << <<"@", "cycompile", "(">>,
         <<IND, "opt", "=", "'fast'", ",">>,
         <<")">> >>,
      << <<"@", "cycompile", "(">>,
         <<IND, "compiler_directives", "=", "dict", "(", "boundscheck", "=", "False", ")">>,
         <<")">> >>,
      << <<"@", "cycompile", "(", "opt", "=", "'fast'", ",", "extra_compile_args", "=", "[">>,
         <<IND, "'-O3'", "]", ")">> >> }

\* The other decorators of a function: none, one the extraction keeps, a bare
\* name, or an invocation.
OtherDecorators ==
    { <<>>,
      << <<"@", "staticmethod">> >>,
      << <<"@", "classmethod">> >>,
      << <<"@", "property">> >>,
      << <<"@", "lib", ".", "register">> >>,
      << <<"@", "lib", ".", "cache", "(", ")">> >> }

\* Function sources as inspect.getsource returns them: the decorators above
\* this system's, this system's, those below it, the def line and the body,
\* each line indented as the function is.
FunctionSources ==
    [above : OtherDecorators, own : OwnDecorators, below : OtherDecorators,
     indent : {<<>>, <<IND>>},
     body : {BodyLeaf("f"), BodyRec("True", "is_odd"), BodyPrint}]

DefLineOf(src) == << <<"def", "fn", "(", "n", ")", ":">> >>

LinesOf(src) ==
    LET raw == src.above \o src.own \o src.below \o DefLineOf(src) \o src.body
    IN [i \in 1..Len(raw) |-> src.indent \o raw[i]]

\* remove_decorators applied to a function source.
RemoveCall ==
    /\ extract_call = None
    /\ \E src \in FunctionSources :
          extract_call' = Some([op |-> "remove_decorators", input |-> src,
                                output |-> StripSource(TextOf(LinesOf(src)))])
    /\ UNCHANGED <<prog, resolve_call, compiled_func, compiled_func_cache, cache_dir,
                   sys_path, stack, ret, builds, nfail, called, disk0>>

\* Lines of a source file: imports, imports of this system's names or of a
\* name containing one, an import inside a block, assignments to names that
\* begin with the letters of import or from, a def line and a blank line.
FileLineKinds ==
    { <<"import", "liba">>,
      <<"from", "libb", "import", "lib">>,
      <<"from", "cycompile", "import", "cycompile">>,
      <<"import", "my_cycompile_tools">>,
      <<IND, "import", "libb">>,
      <<"important", "=", "1">>,
      <<"from_disk", "=", "lib", ".", "f", "(", "0", ")">>,
      <<"def", "h", "(", "n", ")", ":">>,
      <<>> }

MaxFileLines == 3

SourceFiles == UNION {[1..n -> FileLineKinds] : n \in 0..MaxFileLines}

\* The scan of the source file in extract_all_imports (script_imports).
ImportsCall ==
    /\ extract_call = None
    /\ \E file \in SourceFiles :
          extract_call' = Some([op |-> "script_imports", input |-> file,
                                output |-> Join(<<NL>>, ScriptImports(file))])
    /\ UNCHANGED <<prog, resolve_call, compiled_func, compiled_func_cache, cache_dir,
                   sys_path, stack, ret, builds, nfail, called, disk0>>

\* What a module may bind besides the decorated function fn: functions and
\* classes it declares, and functions and classes it imports.
MemberKinds ==
    { [name |-> "helper", kind |-> "function", home |-> ModuleName],
      [name |-> "f", kind |-> "function", home |-> ModuleName],
      [name |-> "Point", kind |-> "class", home |-> ModuleName],
      [name |-> "util", kind |-> "function", home |-> "helpers"],
      [name |-> "Path0", kind |-> "class", home |-> "helpers"],
      [name |-> "cycompile", kind |-> "function", home |-> "cycompile"] }

FnMember == [name |-> "fn", kind |-> "function", home |-> ModuleName]

\* Body lines with calls: of a declared function, of an imported one, of the
\* function itself, of classes, through an attribute of a name, and through
\* an attribute of an attribute.
CallLineKinds ==
    { <<IND, "helper", "(", "n", ")">>,
      <<IND, "util", "(", "n", ")">>,
      <<IND, "fn", "(", "n", "-", "1", ")">>,
      <<IND, "Point", "(", ")">>,
      <<IND, "Path0", "(", ")">>,
      <<IND, "lib", ".", "f", "(", "n", ")">>,
      <<IND, "lib", ".", "sub", ".", "helper", "(", "n", ")">> }

\* extract_all_imports' choice of the sibling names, for the function fn with
\* one or two call lines in a module with some of the members.
SiblingsCall ==
    /\ extract_call = None
    /\ \E members \in SUBSET MemberKinds : \E l1 \in CallLineKinds : \E l2 \in CallLineKinds :
          LET source == TextOf(DecoPlain \o << <<"def", "fn", "(", "n", ")", ":">>, l1, l2 >>)
              module == members \cup {FnMember}
          IN extract_call' =
                Some([op |-> "called_functions",
                      input |-> [source |-> source, members |-> module],
                      output |-> CalledSiblings("fn", source, get_function_names(module),
                                                get_class_names(module, ModuleName))])
    /\ UNCHANGED <<prog, resolve_call, compiled_func, compiled_func_cache, cache_dir,
                   sys_path, stack, ret, builds, nfail, called, disk0>>

\* The extraction functions alone, each applied once to every input.
InitExtract == Init /\ prog = "single" /\ disk0 = {}

NextExtract == RemoveCall \/ ImportsCall \/ SiblingsCall

SpecExtract == InitExtract /\ [][NextExtract]_vars

\* How a decoration is written: with the decorator syntax above the def, or
\* as a call applied to the function after its definition.
DecorationStyles == {"decorator", "call"}

\* The arguments of a decoration besides verbose: opt omitted or written,
\* compiler_directives omitted or written.
OptArgs == {None, Some("safe"), Some("fast")}
DirectiveLiterals == {None, Some(<<>>), Some(<< <<"'boundscheck'", "False">> >>)}

\* How the verbose argument is written when it is off, and when it is on.
QuietForms == {None, Some("False")}
LoudForm == Some("True")

\* The argument list of cycompile(...) as it stands in the file.
ArgumentText(opt, cd, verbose) ==
    Join(<<",">>,
         (IF opt = None THEN <<>> ELSE << <<"opt", "=", opt[1]>> >>)
         \o (IF cd = None THEN <<>>
             ELSE << <<"compiler_directives", "=">> \o StrDict(cd[1]) >>)
         \o (IF verbose = None THEN <<>> ELSE << <<"verbose", "=", verbose[1]>> >>))

\* inspect.getsource of the function fn decorated in the given style.
DecoratedSource(style, opt, cd, verbose, body) ==
    TextOf((IF style = "decorator"
            THEN << <<"@", "cycompile", "(">> \o ArgumentText(opt, cd, verbose) \o <<")">> >>
            ELSE <<>>)
           \o << <<"def", "fn", "(", "n", ")", ":">> >> \o body)

\* The arguments the decorator receives (opt defaults to "safe").
ReceivedOpts(opt, cd, verbose) ==
    Opts(IF opt = None THEN "safe" ELSE opt[1], None, cd, verbose = LoudForm)

\* What a run of the wrapper computes before its lookup, for a decoration:
\* the identifier (line 399), the text remove_decorators keeps (line 67), and
\* the configuration run_cython_compile resolves (lines 293-301).
Resolution(style, opt, cd, verbose, body) ==
    LET o == ReceivedOpts(opt, cd, verbose)
        source == DecoratedSource(style, opt, cd, verbose, body)
    IN [hash_key |-> KeyOf(o, source),
        stripped |-> StripSource(source),
        config |-> Resolve(o.opt, o.extra_compile_args, o.compiler_directives)]

\* One decoration resolved twice: with verbose off and with verbose on.
VerboseCall ==
    /\ extract_call = None
    /\ \E style \in DecorationStyles : \E opt \in OptArgs : \E cd \in DirectiveLiterals :
       \E quiet \in QuietForms :
       \E body \in {BodyLeaf("f"), BodyRec("True", "is_odd"), BodyPrint} :
          extract_call' =
             Some([op |-> "hash_key",
                   input |-> [style |-> style, opt |-> opt, compiler_directives |-> cd,
                              quiet |-> quiet, body |-> body],
                   output |-> [quiet |-> Resolution(style, opt, cd, quiet, body),
                               loud |-> Resolution(style, opt, cd, LoudForm, body)]])
    /\ UNCHANGED <<prog, resolve_call, compiled_func, compiled_func_cache, cache_dir,
                   sys_path, stack, ret, builds, nfail, called, disk0>>

\* The key engine alone, applied once to every decoration.
InitVerbose == Init /\ prog = "single" /\ disk0 = {}

SpecVerbose == InitVerbose /\ [][VerboseCall]_vars

(* ------------------------------------------------------------ properties *)

\* The function a wrapper wraps, its name and its Translation Unit now.
FuncOf(w) == Wrapper(w).func
NameOf(w) == Func(FuncOf(w)).name
UnitOf(w) == Units[prog][CurrentLib][FuncOf(w)]

\* The decorator object of w decorates no other function of the program.
OwnCell(w) == \A v \in ProgWrappers(prog) : Wrapper(v).cell = Wrapper(w).cell => v = w

\* The frames of a thread's stack.
Frames(t) == {stack[t][i] : i \in 1..Len(stack[t])}

\* The first resolution of w succeeds: its source is available and the module
\* built from its Translation Unit defines its name.
Resolvable(w) == FuncOf(w) \notin NoSource /\ NameOf(w) \in ModuleExports[UnitOf(w)]

\* C1 (idempotent dispatch): while one module-level decorated function is the
\* only one called, from one thread, in a process that started with an empty
\* cache root and whose backend never failed, the backend is invoked at most
\* once; when the first resolution succeeds it is invoked exactly once by the
\* time the first call has returned, and every call returns a value: the
\* result of the function on its argument.
C1_IdempotentDispatch ==
    \A w \in ProgWrappers(prog) :
        (called = {w} /\ Func(FuncOf(w)).scope = "module" /\ disk0 = {} /\ nfail = 0)
        => /\ builds[w] <= 1
           /\ \A v \in WrapperIds \ {w} : builds[v] = 0
           /\ (Resolvable(w) /\ ret["main"].status # "none")
              => /\ ret["main"].status = "value"
                 /\ ret["main"].val = PyEval(prog, FuncOf(w), ret["main"].arg)
                 /\ builds[w] = 1

\* A second call of the only function called is on its fast path and is about
\* to return, after exactly one build.
C1_Witness ==
    \E w \in ProgWrappers(prog) :
        /\ called = {w} /\ disk0 = {} /\ nfail = 0 /\ builds[w] = 1
        /\ Len(stack["main"]) = 2
        /\ stack["main"][1].pc = "L391"
        /\ stack["main"][2].val # None

\* C2 (the slot never reverts): a closure cell that holds a compiled callable
\* holds the same callable after every step, whatever the threads do.
C2_SlotNeverReverts ==
    [][\A c \in Cells : compiled_func[c] # None => compiled_func'[c] = compiled_func[c]]_vars

\* C3 (mutual recursion): with is_even and is_odd each decorated on its own and
\* each calling the other, and a backend that does not fail, every call
\* terminates, the backend is invoked at most once per function (at most twice
\* in total), and the call returns the parity it asks for: is_even(5) is False.
C3_Safe ==
    (prog = "mutual" /\ nfail = 0)
    => /\ builds["is_even"] <= 1
       /\ builds["is_odd"] <= 1
       /\ \A v \in WrapperIds \ {"is_even", "is_odd"} : builds[v] = 0
       /\ ret["main"].status # "none"
          => /\ ret["main"].status = "value"
             /\ ret["main"].val =
                    BoolVal((ret["main"].arg % 2 = 0) = (ret["main"].w = "is_even"))

C3_MutualRecursion ==
    /\ []C3_Safe
    /\ (stack["main"] # <<>>) ~> (stack["main"] = <<>>)

\* A cold is_even(5), on an empty cache root, has returned False after one
\* build of each function.
C3_Witness ==
    /\ prog = "mutual" /\ disk0 = {} /\ nfail = 0
    /\ ret["main"].status = "value" /\ ret["main"].w = "is_even" /\ ret["main"].arg = 5
    /\ ret["main"].val = BoolVal(FALSE)
    /\ builds["is_even"] = 1 /\ builds["is_odd"] = 1

\* The directives and flags the backend gets for the decoration w.
ResolveOf(w) ==
    Resolve(Wrapper(w).opt, Wrapper(w).extra_compile_args, Wrapper(w).compiler_directives)

\* The frames of the main thread in which compiled code runs.
CompiledFrames == {fr \in Frames("main") : fr.kind = "compiled"}

\* C4 (one slot per function): the slot of a decorated function that was never
\* called is unresolved, whatever happened to other functions, and a call of a
\* wrapper runs the compiled symbol that bears its own function's name.
C4_OneSlotPerFunction ==
    /\ \A w \in ProgWrappers(prog) :
          w \notin called => compiled_func[Wrapper(w).cell] = None
    /\ \A fr \in CompiledFrames : fr.fn[1].name = NameOf(fr.w)

\* C5 (key determinism): two resolved decorations, each made by its own
\* cycompile(...) call, whose Translation Units are the same text and whose
\* resolved directives and flags are the same hold callables loaded under the
\* same identifier.
C5_KeyDeterminism ==
    \A v, w \in ProgWrappers(prog) :
        ( /\ OwnCell(v) /\ OwnCell(w)
          /\ compiled_func[Wrapper(v).cell] # None
          /\ compiled_func[Wrapper(w).cell] # None
          /\ UnitOf(v) = UnitOf(w)
          /\ ResolveOf(v) = ResolveOf(w) )
        => compiled_func[Wrapper(v).cell][1].key = compiled_func[Wrapper(w).cell][1].key

\* C6 (the identifier covers the Translation Unit): every artifact the disk
\* lookup of a wrapper matches was built from the wrapper's current
\* Translation Unit, and so was the compiled code a wrapper with its own
\* decorator dispatches to.
C6_KeyCoversUnit ==
    /\ \A fr \in Frames("main") :
          (fr.kind = "wrapper" /\ fr.pc = "L412")
          => \A x \in Glob(cache_dir, fr.hash_key) : x.content = UnitOf(fr.w)
    /\ \A fr \in CompiledFrames : OwnCell(fr.w) => fr.fn[1].unit = UnitOf(fr.w)

\* C7 (cross-run reuse): when the cache root held an artifact under a
\* function's identifier at process start and only that function, one whose
\* Translation Unit defines it, has been called, no build has happened, and a
\* call that has finished returned the function's result on its argument and
\* left the slot resolved.
C7_CrossRunReuse ==
    \A w \in ProgWrappers(prog) :
        (called = {w} /\ Resolvable(w) /\ Glob(disk0, HashKeys[w]) # {})
        => /\ \A v \in WrapperIds : builds[v] = 0
           /\ ret["main"].status # "none"
              => /\ ret["main"].status = "value"
                 /\ ret["main"].val = PyEval(prog, FuncOf(w), ret["main"].arg)
                 /\ compiled_func[Wrapper(w).cell] # None

\* Two decorations of module-level functions with different names, the same
\* body text and the same decorator arguments.
Twins(v, w) ==
    /\ NameOf(v) # NameOf(w)
    /\ Func(FuncOf(v)).scope = "module" /\ Func(FuncOf(w)).scope = "module"
    /\ Func(FuncOf(v)).param = Func(FuncOf(w)).param
    /\ Func(FuncOf(v)).body = Func(FuncOf(w)).body
    /\ Wrapper(v).opt = Wrapper(w).opt
    /\ Wrapper(v).extra_compile_args = Wrapper(w).extra_compile_args
    /\ Wrapper(v).compiler_directives = Wrapper(w).compiler_directives

\* C8 (same body, different names): the two functions have different
\* identifiers, and whenever the wrapper of one dispatches, the artifact of its
\* own identifier is on disk and the code that runs is the symbol of its own
\* name loaded from that artifact.
C8_TwinsDistinct ==
    \A v, w \in ProgWrappers(prog) :
        Twins(v, w)
        => /\ HashKeys[v] # HashKeys[w]
           /\ \A fr \in CompiledFrames :
                 fr.w = v => /\ Glob(cache_dir, HashKeys[v]) # {}
                             /\ fr.fn[1].key = HashKeys[v]
                             /\ fr.fn[1].name = NameOf(v)

\* The errors that end the calls of the decorated functions of a scope.
ReasonsOf(scope) ==
    {ExtractionErrors[f][1] :
        f \in {g \in FuncIds : Func(g).scope = scope /\ ExtractionErrors[g] # None}}

\* C9 (scope rejection): every call of a decorated function declared in a
\* class body or in another function fails, and the error of a class-body
\* function is never an error that a nested function fails with (nor the
\* other way round): the two reasons can be told apart.
C9_ScopeRejection ==
    \A w \in ProgWrappers(prog) :
        LET sc == Func(FuncOf(w)).scope
            other == IF sc = "class" THEN "nested" ELSE "class"
        IN (sc # "module" /\ ret["main"].w = w /\ ret["main"].status # "none")
           => /\ ret["main"].status = "error"
              /\ ret["main"].err \notin ReasonsOf(other)

\* The main thread's outermost call is a call of a decorated function that is
\* declared in a class body or in another function.
InScopeRejectedCall ==
    /\ stack["main"] # <<>>
    /\ Func(FuncOf(stack["main"][1].w)).scope # "module"

\* C10 (a rejected call has no side effect): no step of a call of a function
\* declared in a class body or in another function changes a slot, the
\* in-process tier, the files of the cache root or the number of builds, and
\* the step that ends the call raises an error.
C10_RejectionNoSideEffect ==
    [][InScopeRejectedCall
       => /\ UNCHANGED <<compiled_func, compiled_func_cache, cache_dir, builds, nfail>>
          /\ stack'["main"] = <<>> => ret'["main"].status = "error"]_vars

\* A call of a class-body function has failed, with every slot unresolved, the
\* in-process tier empty, the cache root as at process start and no build.
C10_Witness ==
    /\ ret["main"].status = "error"
    /\ Func(FuncOf(ret["main"].w)).scope = "class"
    /\ \A c \in Cells : compiled_func[c] = None
    /\ compiled_func_cache = <<>>
    /\ cache_dir = disk0
    /\ \A v \in WrapperIds : builds[v] = 0

\* The override mapping and the override flags of the resolution just made.
OverrideDirectives == DictOf(OrElse(resolve_call[1].compiler_directives, <<>>))
OverrideFlags == OrElse(resolve_call[1].extra_compile_args, <<>>)

\* C11 (profile merge law): for safe and fast, the resolved directives have the
\* keys of the profile's defaults and of the overrides, each override key with
\* the override's value and every other key with its default, and the resolved
\* flags are the profile's flags followed by the override flags.
C11_ProfileMerge ==
    (resolve_call # None /\ resolve_call[1].opt \in {"safe", "fast"})
    => LET r == resolve_call[1].config
           default == opt_profiles[resolve_call[1].opt]
       IN /\ DOMAIN r.directives = DOMAIN default.directives \cup DOMAIN OverrideDirectives
          /\ \A k \in DOMAIN OverrideDirectives : r.directives[k] = OverrideDirectives[k]
          /\ \A k \in DOMAIN default.directives \ DOMAIN OverrideDirectives :
                r.directives[k] = default.directives[k]
          /\ r.flags = default.flags \o OverrideFlags

\* fast was resolved with an override of one of its defaults and an extra flag.
C11_Witness ==
    /\ resolve_call # None
    /\ resolve_call[1].opt = "fast"
    /\ resolve_call[1].compiler_directives = Some(<< <<"'boundscheck'", "True">> >>)
    /\ resolve_call[1].extra_compile_args = Some(<<"-fno-fast-math">>)
    /\ resolve_call[1].config.directives["'boundscheck'"] = "True"
    /\ resolve_call[1].config.directives["'cdivision'"] = "True"
    /\ Len(resolve_call[1].config.flags) = 6

\* C12 (custom bypass law): for custom, the resolved directives are exactly the
\* override mapping (empty when it is omitted or empty) and the resolved flags
\* exactly the override flags (none when omitted or empty).
C12_CustomBypass ==
    (resolve_call # None /\ resolve_call[1].opt = "custom")
    => /\ resolve_call[1].config.directives = OverrideDirectives
       /\ resolve_call[1].config.flags = OverrideFlags

\* custom was resolved with both arguments omitted: nothing is configured.
C12_Witness ==
    /\ resolve_call # None
    /\ resolve_call[1].opt = "custom"
    /\ resolve_call[1].compiler_directives = None
    /\ resolve_call[1].extra_compile_args = None
    /\ DOMAIN resolve_call[1].config.directives = {}
    /\ resolve_call[1].config.flags = <<>>

CacheKeys(cache) == [i \in 1..Len(cache) |-> cache[i].key]

\* C14 (bounded tier): with calls from one thread, the in-process tier never
\* holds more than MAX_CACHE_SIZE entries; the step before a store (line 464)
\* removes the first entry of the tier when it holds at least the maximum and
\* nothing otherwise, and the store (line 468) then adds the new identifier
\* at the end of a tier that has room for it.
C14_BoundedTier ==
    /\ [](Len(compiled_func_cache) <= MAX_CACHE_SIZE)
    /\ [][At("main", "L464") =>
            compiled_func_cache' = IF Len(compiled_func_cache) >= MAX_CACHE_SIZE
                                   THEN Tail(compiled_func_cache)
                                   ELSE compiled_func_cache]_vars
    /\ [][(At("main", "L468") /\ ~InCache(compiled_func_cache, Top("main").hash_key)) =>
            /\ Len(compiled_func_cache) < MAX_CACHE_SIZE
            /\ CacheKeys(compiled_func_cache') =
                   Append(CacheKeys(compiled_func_cache), Top("main").hash_key)]_vars

\* A store is about to happen on a full tier whose oldest entry was just
\* removed: one more function than the tier can hold has been resolved.
C14_Witness ==
    /\ At("main", "L468")
    /\ Len(compiled_func_cache) = MAX_CACHE_SIZE - 1
    /\ Cardinality({c \in Cells : compiled_func[c] # None}) > MAX_CACHE_SIZE
    /\ \E c \in Cells : /\ compiled_func[c] # None
                        /\ ~InCache(compiled_func_cache, compiled_func[c][1].key)

\* C15 (insertion order, not recency): a hit on an entry of the in-process
\* tier (line 412) leaves the tier as it is; a step that shrinks the tier
\* removes its first entry only; every other step keeps the entries in place
\* and adds at most one at the end. The tier is therefore always in insertion
\* order and the entry a store evicts is the earliest inserted.
C15_InsertionOrder ==
    /\ [][(At("main", "L412") /\ InCache(compiled_func_cache, Top("main").hash_key)) =>
            compiled_func_cache' = compiled_func_cache]_vars
    /\ [][Len(compiled_func_cache') < Len(compiled_func_cache) =>
            compiled_func_cache' = Tail(compiled_func_cache)]_vars
    /\ [][Len(compiled_func_cache') >= Len(compiled_func_cache) =>
            /\ Len(compiled_func_cache') <= Len(compiled_func_cache) + 1
            /\ SubSeq(compiled_func_cache', 1, Len(compiled_func_cache))
                   = compiled_func_cache]_vars

\* h_safe and h_again share an identifier: one was loaded, the other hit its
\* entry; that entry, although the most recently used, has since been evicted
\* by a store, and the two entries inserted after it remain.
C15_Witness ==
    /\ prog = "dup"
    /\ compiled_func["h_safe"] # None /\ compiled_func["h_again"] # None
    /\ builds["h_safe"] + builds["h_again"] = 1 /\ disk0 = {}
    /\ Len(compiled_func_cache) = MAX_CACHE_SIZE
    /\ ~InCache(compiled_func_cache, HashKeys["h_safe"])
    /\ \A c \in Cells : (compiled_func[c] # None /\ c \notin {"h_safe", "h_again"})
                          => InCache(compiled_func_cache, compiled_func[c][1].key)

\* The compiled modules (artifacts) of a directory.
Artifacts(dir) == {x \in dir : x.ext = extension}

\* C16 (no deletion on disk): over every step of every call (builds, failed
\* builds, failed loads, evictions of the in-process tier), an artifact of the
\* cache root is still there, unchanged, after the step, and every other
\* file of the cache root still has a file of its name.
C16_DiskOnlyGrows ==
    [][/\ Artifacts(cache_dir) \subseteq Artifacts(cache_dir')
       /\ \A x \in cache_dir : \E y \in cache_dir' : y.name = x.name /\ y.ext = x.ext]_vars

\* The cache root held artifacts at start, a build has failed, another has
\* added an artifact, an entry of the in-process tier has been evicted, and
\* the artifacts of the start are all still there.
C16_Witness ==
    /\ Artifacts(disk0) # {} /\ nfail > 0
    /\ Artifacts(disk0) \subseteq Artifacts(cache_dir)
    /\ Artifacts(cache_dir) # Artifacts(disk0)
    /\ \E c \in Cells : /\ compiled_func[c] # None
                        /\ ~InCache(compiled_func_cache, compiled_func[c][1].key)
                        /\ Glob(cache_dir, compiled_func[c][1].key) # {}

\* A build of identifier key is in progress in thread t: a wrapper frame is
\* between the write of the staging file and the return of run_cython_compile.
Building(t, key) ==
    \E fr \in Frames(t) : /\ fr.kind = "wrapper" /\ fr.hash_key = key
                          /\ fr.pc \in {"L438", "L304", "L324", "L338"}

\* C17 (build cleanup): a staging file that was not in the cache root at start
\* is there only while a build of its identifier is in progress; once the
\* build has returned, with or without an error, the staging file is gone.
C17_BuildCleanup ==
    \A x \in cache_dir \ disk0 :
        x.ext = "pyx" => \E t \in Threads : Building(t, x.name)

\* The exception the wrapper on top of the main thread's stack is about to
\* raise: the source is unavailable (line 394), the extraction fails (line
\* 425), or a finally block ends with the exception of its try block pending
\* (lines 338, 472).
FailureAt ==
    IF At("main", "L394") /\ FuncOf(Top("main").w) \in NoSource THEN Some("OSError")
    ELSE IF At("main", "L425") THEN ExtractionErrors[FuncOf(Top("main").w)]
    ELSE IF At("main", "L338") \/ At("main", "L472") THEN Top("main").exc
    ELSE None

\* C18 (error propagation): an exception is pending only in a finally block
\* of the wrapper that raised it; a backend failure, a module that cannot be
\* imported and a module without the function's name each leave their
\* exception pending; the step of a wrapper that is about to raise ends the
\* whole call with that exception as its outcome; and a call's outcome is a
\* value only when a wrapper hands back what its compiled callable returned.
C18_ErrorPropagation ==
    /\ [](\A fr \in Frames("main") :
            fr.exc # None => fr.kind = "wrapper" /\ fr.pc \in {"L338", "L472"}
                             /\ fr = Top("main"))
    /\ [][(At("main", "L324") /\ nfail' > nfail) =>
            stack'["main"] # <<>> /\ Top("main")'.exc = Some("CompileError")]_vars
    /\ [][(At("main", "L458")
            /\ FindModule(sys_path, cache_dir, Top("main").hash_key) = {}) =>
            stack'["main"] # <<>> /\ Top("main")'.exc = Some("ImportError")]_vars
    /\ [][(At("main", "L461")
            /\ NameOf(Top("main").w) \notin NamesOf(Top("main").module[1])) =>
            stack'["main"] # <<>> /\ Top("main")'.exc = Some("AttributeError")]_vars
    /\ [][FailureAt # None =>
            /\ stack'["main"] = <<>>
            /\ ret'["main"].status = "error"
            /\ ret'["main"].err = FailureAt[1]
            /\ ret'["main"].w = stack["main"][1].w]_vars
    /\ [][(ret'["main"].status = "value" /\ ret["main"].status # "value") =>
            /\ Len(stack["main"]) = 1
            /\ Top("main").kind = "wrapper"
            /\ Top("main").pc \in {"L391", "L416", "L475r"}
            /\ Top("main").val # None]_vars

\* The function tagged has failed twice: a first call ended with the
\* backend's error, and a later call, after a build that succeeded, ended
\* with the AttributeError of the load (the module lacks the name).
C18_Witness ==
    /\ prog = "bare" /\ disk0 = {}
    /\ nfail = 1 /\ builds["tagged"] = 2
    /\ stack["main"] = <<>>
    /\ ret["main"].status = "error" /\ ret["main"].err = "AttributeError"
    /\ compiled_func["tagged"] = None

\* C19 (retry after failure): a wrapper that raises during resolution leaves
\* its slot unresolved, and a later call of a function that was called before
\* and whose slot is still unresolved (it is past the slot check, at line
\* 408) goes on to the extraction at line 425, then the build and the load,
\* in a process that started with an empty cache root.
C19_RetryFullPipeline ==
    /\ [][FailureAt # None =>
            compiled_func'[Wrapper(Top("main").w).cell] = None]_vars
    /\ [][(disk0 = {} /\ At("main", "L408") /\ Top("main").again) =>
            (stack'["main"] # <<>> /\ Top("main")'.pc = "L425")]_vars

\* Thread t has the staging file of identifier key open for writing (lines
\* 437-438).
Staging(t, key) == At(t, "L438") /\ Top(t).hash_key = key

\* C20 (mutual exclusion of resolution): while the threads call one decorated
\* function only and the backend has not failed, the backend is invoked at
\* most once for it, and the two threads are never both writing the staging
\* file of its identifier.
C20_ResolutionExclusive ==
    \A w \in ProgWrappers(prog) :
        (called = {w} /\ nfail = 0)
        => /\ builds[w] <= 1
           /\ ~(Staging("main", HashKeys[w]) /\ Staging("worker", HashKeys[w]))

\* C21 (racing first calls are harmless for results): while the two threads
\* call one decorated function only and the backend has not failed, a call
\* that has finished returned the function's result on its argument, and the
\* slot then holds a callable loaded for the function's identifier.
C21_RaceHarmless ==
    \A w \in ProgWrappers(prog) :
        (called = {w} /\ nfail = 0)
        => \A t \in Threads :
              ret[t].status # "none"
              => /\ ret[t].status = "value"
                 /\ ret[t].val = PyEval(prog, FuncOf(w), ret[t].arg)
                 /\ compiled_func[Wrapper(w).cell] # None
                 /\ compiled_func[Wrapper(w).cell][1].key = HashKeys[w]

\* C22 (cache clearing): when clear_cache() has returned the in-process tier
\* is empty, and the step of clear_cache() leaves the cache root, and every
\* file in it, as it was.
C22_ClearCache ==
    /\ [](ret["main"].status = "cleared" => compiled_func_cache = <<>>)
    /\ [][ret'["main"].status = "cleared" => cache_dir' = cache_dir]_vars

\* clear_cache() has just emptied a tier whose entries had been loaded from
\* artifacts that are still in the cache root.
C22_Witness ==
    /\ ret["main"].status = "cleared"
    /\ compiled_func_cache = <<>>
    /\ Cardinality({c \in Cells : compiled_func[c] # None}) >= 2
    /\ \A c \in Cells : compiled_func[c] # None
                          => Glob(cache_dir, compiled_func[c][1].key) # {}

\* The lines of a function source that belong to this system's decorator.
OwnLines(src) == {src.indent \o src.own[i] : i \in 1..Len(src.own)}

\* C23 (no decorator of this system in the Translation Unit): for every
\* function source, no line of the text remove_decorators returns is a line
\* of this system's decorator invocation.
C23_NoOwnDecorator ==
    (extract_call # None /\ extract_call[1].op = "remove_decorators")
    => Range(splitlines(extract_call[1].output)) \cap OwnLines(extract_call[1].input) = {}

\* The lines of a function source that are not decorators to remove: the
\* decorators of keep_decorators, the def line and the body, in order.
RetainedLines(src) ==
    LET keep(d) == IF d # <<>> /\ d[1] \in keep_decorators THEN d ELSE <<>>
        raw == keep(src.above) \o keep(src.below) \o DefLineOf(src) \o src.body
    IN [i \in 1..Len(raw) |-> src.indent \o raw[i]]

\* C28 (decorator removal): for every function source whose decorators are
\* bare names or invocations, this system's decorator being written on one
\* line, remove_decorators returns exactly the kept decorators, the def line
\* and the body lines, unchanged and in order.
C28_RemoveDecorators ==
    (extract_call # None /\ extract_call[1].op = "remove_decorators"
     /\ Len(extract_call[1].input.own) = 1)
    => extract_call[1].output = Join(<<NL>>, RetainedLines(extract_call[1].input))

\* A line that begins with an import statement: its first word is the
\* keyword import or from.
IsImportLine(line) == strip(line) # <<>> /\ Head(strip(line)) \in {"import", "from"}

MentionsOwnName(line) == \E i \in 1..Len(line) : Mentions(line[i])

\* The lines of a file the verbatim import list is to hold, in file order.
RECURSIVE ImportLinesOf(_)
ImportLinesOf(file) ==
    IF file = <<>> THEN <<>>
    ELSE (IF IsImportLine(Head(file)) /\ ~MentionsOwnName(Head(file))
          THEN <<rstrip(Head(file))>> ELSE <<>>) \o ImportLinesOf(Tail(file))

\* C29 (verbatim import list): for every source file, the list holds exactly
\* the lines whose first word is import or from and that mention none of
\* this system's names, in file order.
C29_ImportList ==
    (extract_call # None /\ extract_call[1].op = "script_imports")
    => extract_call[1].output = Join(<<NL>>, ImportLinesOf(extract_call[1].input))

\* The functions and classes a module declares at its top level.
DeclaredNames(members, module_name) == {m.name : m \in {x \in members : x.home = module_name}}

\* C30 (sibling import list): for every function source and module, the
\* names imported from the module are exactly the names called in the source
\* (f(...) and x.f(...)) that the module declares at its top level, the
\* function's own name excepted.
C30_SiblingList ==
    (extract_call # None /\ extract_call[1].op = "called_functions")
    => extract_call[1].output =
          (CallNames(extract_call[1].input.source)
             \cap DeclaredNames(extract_call[1].input.members, ModuleName)) \ {"fn"}

\* C24 (lookup order): a wrapper on a cold slot that has computed its
\* identifier (it is at line 408) and whose identifier is in the in-process
\* tier goes on to use that entry (lines 412-416), whatever the cache root
\* holds, and a build (line 425 on) starts only when both tiers miss.
C24_LookupOrder ==
    /\ [][(At("main", "L408")
            /\ InCache(compiled_func_cache, Top("main").hash_key)) =>
            (stack'["main"] # <<>> /\ Top("main")'.pc = "L412")]_vars
    /\ [](At("main", "L425") =>
            /\ ~InCache(compiled_func_cache, Top("main").hash_key)
            /\ Glob(cache_dir, Top("main").hash_key) = {})

\* C25 (fast path): the step of a wrapper whose slot is resolved (line 390)
\* only starts the stored callable on the call's argument and waits for it
\* at line 391: the slot, both cache tiers, the module search path and the
\* build counters are as before; and a wrapper waiting at line 391 has
\* computed no identifier, looked at no tier and loaded no module.
C25_FastPath ==
    /\ [][(At("main", "L390") /\ compiled_func[Wrapper(Top("main").w).cell] # None) =>
            /\ Len(stack'["main"]) = Len(stack["main"]) + 1
            /\ stack'["main"][Len(stack["main"])] = [Top("main") EXCEPT !.pc = "L391"]
            /\ Top("main")'.kind = "compiled"
            /\ Top("main")'.fn = compiled_func[Wrapper(Top("main").w).cell]
            /\ Top("main")'.arg = Top("main").arg
            /\ UNCHANGED <<compiled_func, compiled_func_cache, cache_dir, sys_path,
                           builds, nfail>>]_vars
    /\ [](\A fr \in Frames("main") :
            (fr.kind = "wrapper" /\ fr.pc = "L391")
            => /\ fr.hash_key = <<>> /\ fr.compiled_matches = FALSE
               /\ fr.source_code = <<>> /\ fr.module = None /\ fr.exc = None)

\* A call on a resolved slot is about to return what the stored callable
\* returned; the process has built once and nothing since.
C25_Witness ==
    /\ prog = "single" /\ disk0 = {}
    /\ Len(stack["main"]) = 1 /\ At("main", "L391")
    /\ Top("main").val # None /\ Top("main").again
    /\ builds["square"] = 1 /\ nfail = 0

\* The wrapper frames of the main thread that have got their callable and are
\* storing it in the in-process tier, about to forward, or waiting for the
\* forwarded call.
PastGetattr ==
    {fr \in Frames("main") : /\ fr.kind = "wrapper"
                             /\ fr.pc \in {"L464", "L468", "L475", "L475r"}}

\* C26 (resolved before forwarding): a wrapper that has passed
\* getattr (line 461) on a cold call has its slot resolved, in particular
\* while the forwarded call runs; and a call of a wrapper made while an
\* earlier call of the same wrapper is still in progress is at the slot test
\* or waits on the fast path: it has computed no identifier and loaded no
\* module.
C26_ResolvedBeforeForward ==
    /\ \A fr \in PastGetattr : compiled_func[Wrapper(fr.w).cell] # None
    /\ \A i, j \in 1..Len(stack["main"]) :
          (/\ i < j
           /\ stack["main"][i].kind = "wrapper" /\ stack["main"][j].kind = "wrapper"
           /\ stack["main"][i].w = stack["main"][j].w)
          => /\ stack["main"][j].pc \in {"L390", "L391"}
             /\ stack["main"][j].hash_key = <<>>
             /\ stack["main"][j].module = None

\* The cold call is_even(n) was forwarded and waits at line 475; two levels
\* down the compiled is_odd has called is_even again, which waits on the fast
\* path after one build of each function.
C26_Witness ==
    /\ prog = "mutual" /\ disk0 = {} /\ nfail = 0
    /\ Len(stack["main"]) >= 5
    /\ stack["main"][1].kind = "wrapper" /\ stack["main"][1].w = "is_even"
    /\ stack["main"][1].pc = "L475r"
    /\ stack["main"][5].kind = "wrapper" /\ stack["main"][5].w = "is_even"
    /\ stack["main"][5].pc = "L391"
    /\ builds["is_even"] = 1 /\ builds["is_odd"] = 1

\* The wrapper on top of the main thread's stack has imported a module that
\* does not define its function's name and is at getattr (line 461).
SymbolMissing ==
    /\ At("main", "L461")
    /\ NameOf(Top("main").w) \notin NamesOf(Top("main").module[1])

\* C27 (load failure): getattr on a module without the function's name
\* leaves AttributeError pending in the wrapper's finally block and changes
\* neither the slot nor the in-process tier; while the error is pending the
\* slot is unresolved and the in-process tier has no entry for the wrapper's
\* identifier; and the next step ends the whole call with AttributeError,
\* again without touching the slot and the tier.
C27_LoadFailure ==
    /\ [][SymbolMissing =>
            /\ stack'["main"] # <<>>
            /\ Top("main")' = [Top("main") EXCEPT !.exc = Some("AttributeError"),
                                                   !.pc = "L472"]
            /\ UNCHANGED <<compiled_func, compiled_func_cache>>]_vars
    /\ [](\A fr \in Frames("main") :
            fr.exc = Some("AttributeError")
            => /\ compiled_func[Wrapper(fr.w).cell] = None
               /\ ~InCache(compiled_func_cache, fr.hash_key))
    /\ [][(At("main", "L472") /\ Top("main").exc = Some("AttributeError")) =>
            /\ stack'["main"] = <<>>
            /\ ret'["main"].status = "error" /\ ret'["main"].err = "AttributeError"
            /\ UNCHANGED <<compiled_func, compiled_func_cache>>]_vars

\* The first call of tagged, on an empty cache root and with a backend that
\* never failed, has ended with AttributeError after one build: the tier is
\* empty and the slot unresolved.
C27_Witness ==
    /\ prog = "bare" /\ disk0 = {} /\ nfail = 0
    /\ called = {"tagged"} /\ builds["tagged"] = 1
    /\ stack["main"] = <<>>
    /\ ret["main"].status = "error" /\ ret["main"].err = "AttributeError"
    /\ ret["main"].w = "tagged"
    /\ compiled_func["tagged"] = None /\ compiled_func_cache = <<>>

\* Thread t is inside the store of lines 463-468: it has passed the size
\* check (and the eviction, if any) and has not yet inserted.
Storing(t) == At(t, "L468")

\* C31 (the store is atomic): with two threads resolving, the in-process tier
\* never holds more than MAX_CACHE_SIZE entries, and while one thread is
\* between its size check and its insertion the other thread is not.
C31_StoreAtomic ==
    /\ Len(compiled_func_cache) <= MAX_CACHE_SIZE
    /\ ~(Storing("main") /\ Storing("worker"))

\* C32 (eviction only on overflow): a step after which an identifier of the
\* in-process tier is no longer in it is the eviction step (line 464) of a
\* thread whose store would otherwise overflow: the tier holds the maximum
\* and the identifier that thread is about to store is not in it.
C32_EvictOnlyOnOverflow ==
    [][\A i \in 1..Len(compiled_func_cache) :
          ~InCache(compiled_func_cache', compiled_func_cache[i].key)
          => \E t \in Threads :
                /\ At(t, "L464") /\ stack'[t] # stack[t]
                /\ Len(compiled_func_cache) >= MAX_CACHE_SIZE
                /\ ~InCache(compiled_func_cache, Top(t).hash_key)]_vars

\* The positions of a wrapper between an append of the cache root to
\* sys.path and the pop that follows it: inside run_cython_compile's try
\* block (lines 306-338) and inside the wrapper's (lines 456-472).
PathExtended == {"L324", "L338", "L458", "L461", "L464", "L468", "L472"}

\* C33 (module search path restored): whenever no call is in progress
\* (before the first call, and after a call has returned or raised)
\* sys.path holds exactly the entries it held at the start; the cache root is
\* on it only while the running wrapper is inside a build or a load, and
\* then once, at the end; and the step that ends a call with an exception
\* leaves sys.path as it was before the call.
C33_PathRestored ==
    /\ [](stack["main"] = <<>> => sys_path = <<"site-packages">>)
    /\ [](IF \E pc \in PathExtended : At("main", pc)
          THEN sys_path = <<"site-packages", CACHE_DIR>>
          ELSE sys_path = <<"site-packages">>)
    /\ [][ret'["main"].status = "error" => sys_path' = <<"site-packages">>]_vars

\* A call whose build succeeded and whose load failed for lack of the symbol
\* has ended, after a call whose build had failed: the path is as at the start.
C33_Witness ==
    /\ prog = "bare" /\ disk0 = {} /\ nfail = 1 /\ builds["tagged"] = 2
    /\ stack["main"] = <<>>
    /\ ret["main"].status = "error" /\ ret["main"].err = "AttributeError"
    /\ ret["main"].arg = MaxArg
    /\ sys_path = <<"site-packages">>
    /\ Glob(cache_dir, HashKeys["tagged"]) # {}

\* The slot c holds a callable whose identifier is not (or no longer) in the
\* in-process tier.
Detached(c) ==
    /\ compiled_func[c] # None
    /\ ~InCache(compiled_func_cache, compiled_func[c][1].key)

\* C34 (a resolved slot does not depend on the in-process tier): the
\* eviction step (line 464) leaves every slot as it is; a slot whose
\* identifier is not in the tier keeps its callable over every step; and a
\* call of a wrapper with such a slot forwards to that callable, with no
\* build, no load, and the tier and the cache root unchanged.
C34_SlotOutlivesTier ==
    /\ [][At("main", "L464") => compiled_func' = compiled_func]_vars
    /\ [][\A c \in Cells : Detached(c) => compiled_func'[c] = compiled_func[c]]_vars
    /\ [][(At("main", "L390") /\ Detached(Wrapper(Top("main").w).cell)) =>
            /\ stack'["main"] # <<>>
            /\ Top("main")'.kind = "compiled"
            /\ Top("main")'.fn = compiled_func[Wrapper(Top("main").w).cell]
            /\ UNCHANGED <<compiled_func_cache, cache_dir, builds, nfail>>]_vars

\* h_safe was resolved first and its entry has been evicted by the stores of
\* the two other wrappers; a later call of h_safe has come back from the
\* stored callable, and h_safe was built once.
C34_Witness ==
    /\ prog = "spell" /\ disk0 = {} /\ nfail = 0
    /\ Len(stack["main"]) = 1 /\ At("main", "L391")
    /\ Top("main").w = "h_safe" /\ Top("main").val # None /\ Top("main").again
    /\ Len(compiled_func_cache) = MAX_CACHE_SIZE
    /\ Detached("h_safe")
    /\ builds["h_safe"] = 1 /\ builds["h_SAFE"] = 1 /\ builds["h_empty"] = 1

\* The positions of a wrapper after a disk lookup that matched: the in-memory
\* check, the load, the store and the forwarded call.
AfterDiskHit == {"L412", "L416", "L454", "L458", "L461", "L464", "L468", "L472",
                 "L475", "L475r"}

\* C35 (a disk hit writes nothing): a wrapper whose disk lookup matched
\* (line 408) never enters the build branch and holds no generated source,
\* and no step it takes, from the lookup to its return, changes the cache
\* root or invokes the backend.
C35_DiskHitWritesNothing ==
    /\ [](\A fr \in Frames("main") :
            (fr.kind = "wrapper" /\ fr.compiled_matches)
            => fr.pc \in AfterDiskHit /\ fr.source_code = <<>>)
    /\ [][((At("main", "L408") /\ Glob(cache_dir, Top("main").hash_key) # {})
            \/ (stack["main"] # <<>> /\ Top("main").kind = "wrapper"
                /\ Top("main").compiled_matches)) =>
            UNCHANGED <<cache_dir, builds, nfail>>]_vars

\* The first call of square in a process that found its artifact in the
\* cache root has come back from the loaded callable: nothing was built, the
\* cache root is as it was, and the slot and the tier hold the callable.
C35_Witness ==
    /\ prog = "single" /\ disk0 # {} /\ cache_dir = disk0
    /\ Len(stack["main"]) = 1 /\ At("main", "L475r")
    /\ Top("main").compiled_matches /\ ~Top("main").again /\ Top("main").val # None
    /\ builds["square"] = 0 /\ nfail = 0
    /\ compiled_func["square"] # None
    /\ InCache(compiled_func_cache, HashKeys["square"])

\* Thread t is loading the module of identifier key: it is between the end
\* of its lookup or build and its getattr (lines 454-461).
Loading(t, key) ==
    /\ \E pc \in {"L454", "L458", "L461"} : At(t, pc)
    /\ Top(t).hash_key = key

\* The other thread.
Other(t) == CHOOSE u \in Threads : u # t

\* C36 (no load during a build): while a thread loads the module of an
\* identifier, no build of that identifier is in progress in the other
\* thread; and the step in which a thread's disk lookup (line 408) matches
\* an artifact is taken only when the other thread is not building that
\* identifier.
C36_NoLoadDuringBuild ==
    \A t \in Threads :
        /\ \A w \in ProgWrappers(prog) :
              Loading(t, HashKeys[w]) => ~Building(Other(t), HashKeys[w])
        /\ (At(t, "L412") /\ Top(t).compiled_matches)
           => ~Building(Other(t), Top(t).hash_key)

\* C37 (verbose is observation-only): the same decoration of the same
\* function, resolved with verbose off and with verbose on, gets the same
\* identifier, the same stripped text and the same configuration.
C37_VerboseObservationOnly ==
    (extract_call # None /\ extract_call[1].op = "hash_key")
    => extract_call[1].output.quiet = extract_call[1].output.loud

====
